---- MODULE Spec2Model ----
(***************************************************************************)
(* Job pipeline of the tax-filing reader: the job table (app/models.py,    *)
(* TaxOcrJob), the worker task process_job and the periodic dispatcher     *)
(* dispatch_jobs_task (app/tasks.py), with the Celery delivery settings of *)
(* celery_app.py.                                                          *)
(*                                                                         *)
(* Every database statement of a task is one step: a SELECT reads the      *)
(* committed row, a commit writes the changed columns with                 *)
(* "UPDATE ... WHERE id = ?" (no condition on status), and the database    *)
(* (PostgreSQL, read committed) lets other tasks run between two           *)
(* statements of the same task.                                            *)
(*                                                                         *)
(* Spec is the pipeline: dispatcher, broker queue and workers, with the    *)
(* page loop of a task as one step. SpecJob follows one invocation of      *)
(* process_job statement by statement (checks, OCR, the retry loop of      *)
(* run_llm_extraction in app/services/llm_service.py, save or except       *)
(* block). SpecLlm is one call of run_llm_extraction with any retry_count. *)
(* SpecStream and SpecPost are single calls of determine_detected_stream   *)
(* and of post_process_401/403_taxable_amounts on inputs drawn by Init.    *)
(* SpecRepair is the repair pass of run_llm_extraction on a response text, *)
(* SpecTotals the post-processing of a withholding-summary result, and     *)
(* SpecExtract a call of extract_zero_tax_rate_amounts on an OCR text.     *)
(* SpecLive is the pipeline after an upload, with the fairness the beat    *)
(* schedule and the workers give: the dispatcher runs again and again, and *)
(* a worker that has a message goes on with it.                            *)
(***************************************************************************)
EXTENDS Integers, FiniteSets, Sequences

\* ---------------------------------------------------------------- bounds
NWorkers == 2        \* worker processes running process_job
NBacklog == 7        \* rows left in PROCESSING by workers lost long ago
NJobs == 11          \* rows of tax_ocr_jobs
MaxMsgs == 2         \* process_job messages queued for one job at a time
MaxQueue == 2        \* process_job messages in the broker queue at a time
MaxAge == 4          \* ages are counted up to MaxAge ticks
MaxLost == 1         \* workers stopped in mid-task in one run
TickMinutes == 10    \* minutes in one tick of the clock
MaxPages == 2        \* pages of an uploaded PDF
MaxRetry == 3        \* retry_count values passed to run_llm_extraction
MaxTags == 3         \* pages of a result handed to determine_detected_stream
MaxAmount == 1       \* amounts of a sales return handed to the control checks
MaxTotal == 2        \* totals reported in such a return
MaxTerms == 3        \* integers of an expression handed to the repair
MaxRecords == 2      \* records of a withholding-summary result
MaxGap == 60         \* characters between the two labels of an OCR text

\* ------------------------------------------------------ program constants
MAX_JOBS_PER_USER == 8       \* tasks.py:211
STALE_MINUTES == 30          \* tasks.py:98, timedelta(minutes=30)
MAX_LLM_RETRY == 2           \* llm_service.py:18, default of retry_count

NoUser == 0                  \* uploaded_by IS NULL
NULL == "NULL"               \* a column holding None

Workers == 1..NWorkers
Jobs == 1..NJobs
Users == {1, 2}
Tables == {1, 2}

Min(a, b) == IF a < b THEN a ELSE b
Max(a, b) == IF a > b THEN a ELSE b

\* ------------------------------------------------- the rows of the table
\* TaxOcrJob.created_at: rows are inserted in id order, two rows of one
\* upload batch may carry the same timestamp.
created_at(j) == (j + 1) \div 2

\* ORDER BY created_at, id
BeforeNewestFirst(a, b) ==
    \/ created_at(a) > created_at(b)
    \/ created_at(a) = created_at(b) /\ a > b
Before(a, b) ==
    \/ created_at(a) < created_at(b)
    \/ created_at(a) = created_at(b) /\ a < b

VARIABLES
    jobs,       \* the table tax_ocr_jobs: id -> row
    msgs,       \* the broker queue: number of process_job messages per job id
    pc,         \* position of each worker inside process_job
    wjob,       \* job id a worker was handed
    requeued,   \* the task has committed the stale branch (tasks.py:99-100)
    ret,        \* "status" of the dict a task has just returned
    dpc,        \* position of the dispatcher inside dispatch_jobs_task
    dusers,     \* pending_user_ids still to be visited
    duser,      \* user_id of the current loop iteration
    dcount,     \* processing_count of the current loop iteration
    lost,       \* workers stopped in mid-task so far
    \* one invocation of process_job, statement by statement
    inp,        \* what the invocation finds: the stored file and retry_count
    job,        \* the row of the job
    jpc,        \* position inside process_job / run_llm_extraction
    page_no,    \* page_no of the page loop
    disk,       \* files on disk: 0 is the uploaded file, n > 0 the PNG of page n
    temp_png_files, \* the list temp_png_files, as the set of its paths
    ocr_calls,  \* calls of the OCR service so far
    llm_calls,  \* calls of chat.completions.create so far
    i,          \* loop variable of the retry loop
    last_err,   \* last_err of the retry loop
    raw,        \* the response of the current attempt
    page_result, \* what run_llm_extraction returned
    all_pages_results,
    exc,        \* the exception e that was raised
    jret,       \* "status" of the dict process_job returned
    \* one call of a pure function
    arg,        \* its arguments
    out         \* <<>>, or <<value>> once the function has returned value

pvars == <<jobs, msgs, pc, wjob, requeued, ret, dpc, dusers, duser, dcount, lost>>
jvars == <<inp, job, jpc, page_no, disk, temp_png_files, ocr_calls, llm_calls, i,
           last_err, raw, page_result, all_pages_results, exc, jret>>
fvars == <<arg, out>>
vars == <<pvars, jvars, fvars>>

wvars == <<pc, wjob, requeued, ret>>
dvars == <<dpc, dusers, duser, dcount>>

\* ------------------------------------------------------------- queries
PendingOf(u) == {j \in Jobs : jobs[j].uploaded_by = u /\ jobs[j].status = "PENDING"}
ProcessingOf(u) == {j \in Jobs : jobs[j].uploaded_by = u /\ jobs[j].status = "PROCESSING"}

\* SELECT DISTINCT uploaded_by WHERE status = 'PENDING' AND uploaded_by IS NOT NULL
PendingUsersAndNull ==
    {jobs[j].uploaded_by : j \in {k \in Jobs : jobs[k].status = "PENDING"}}
PendingUsers ==
    {jobs[j].uploaded_by : j \in {k \in Jobs : jobs[k].status = "PENDING"
                                             /\ jobs[k].uploaded_by # NoUser}}

\* available_slots = MAX_JOBS_PER_USER - processing_count
AvailableSlotsOffByOne(processing_count) == MAX_JOBS_PER_USER - processing_count + 1
AvailableSlots(processing_count) == MAX_JOBS_PER_USER - processing_count

\* ... ORDER BY created_at, id LIMIT available_slots
NextJobsOfOldestRows(u, available_slots) ==
    {j \in PendingOf(u) :
        Cardinality({k \in Jobs : jobs[k].uploaded_by = u /\ Before(k, j)})
          < available_slots}
NextJobs(u, available_slots) ==
    {j \in PendingOf(u) :
        Cardinality({k \in PendingOf(u) : Before(k, j)}) < available_slots}

\* datetime.utcnow() - job.updated_at > timedelta(minutes=30)
IsStaleInclusive(age) == age * TickMinutes >= STALE_MINUTES
IsStale(age) == age * TickMinutes > STALE_MINUTES

\* The entry checks of process_job on the row it has just loaded: which
\* branch the task takes.
EntryNoShortCircuit(row) ==
    IF row.status = "PROCESSING" /\ IsStale(row.age) THEN "requeue"
    ELSE "claim"
Entry(row) ==
    IF row.status = "COMPLETED" THEN "already_completed"
    ELSE IF row.status = "PROCESSING"
         THEN IF IsStale(row.age) THEN "requeue" ELSE "already_processing"
         ELSE "claim"

\* number of messages in the broker queue over the job ids 1..n
RECURSIVE Queued(_, _)
Queued(m, n) == IF n = 0 THEN 0 ELSE m[n] + Queued(m, n - 1)

\* ------------------------------------------- values of a parsed response
\* A JSON value where the code expects an amount: an int, a text, or null.
\* A text is kept by what float() makes of it once commas and spaces are
\* removed: "str" is a text that reads as the number n and is written with
\* separators ("1,234"), "numeral" is a text of digits only ("1234"),
\* "dash" is "" or "-", "junk" is any other text.
Num(n) == [kind |-> "int", n |-> n]
Str(n) == [kind |-> "str", n |-> n]
Numeral(n) == [kind |-> "numeral", n |-> n]
Dash == [kind |-> "dash", n |-> 0]
Junk == [kind |-> "junk", n |-> 0]
None == [kind |-> "none", n |-> 0]

\* A parsed response is a dict, a function from its keys to their values, or
\* a JSON value that is not a dict (NoResult is the column holding None). The nested dicts of a sales return are
\* written flat, with these keys (llm_service.py:371-431, 489-535):
\*   triple_invoice, register_tape, two_form, taxable_total: entries of the
\*     taxable dict (three-part invoices, register-tape invoices, two-part
\*     invoices, the reported total); triple_form is the derived entry;
\*   zero_customs, zero_non_customs, zero_returns, zero_total: entries of the
\*     zero-rate dict; exempt; sales_returns; other; grand_total;
\*   special_total: special-tax total of form 401; special-total and
\*     special-returns: special-tax total and returns of form 403;
\*   sales: the sales dict itself when the response gives null for it.
\* Other keys: stream, payer_name, page (page number), total_pages, pages
\* (the list of page objects of a multi-page result), warnings,
\* warnings_acknowledged.
NotADict == [shape |-> "list"]
NoResult == [shape |-> "null"]
isinstance_dict(x) == "shape" \notin DOMAIN x

\* safe_int(value)
safe_int(value) ==
    CASE value.kind = "none" -> 0
      [] value.kind = "int" -> value.n
      [] value.kind = "str" -> value.n
      [] value.kind = "numeral" -> value.n
      [] value.kind = "dash" -> 0
      [] OTHER -> 0

\* result.get(...).get(key, 0)
Get(result, key) == IF key \in DOMAIN result THEN result[key] ELSE Num(0)

\* result.get("sales", {}).get(...) raises AttributeError when result is not
\* a dict or gives null for the dict
AttributeError(result) == ~isinstance_dict(result) \/ "sales" \in DOMAIN result

\* one control check: the tag is appended when the totals differ
Check(computed, reported, tag) == IF computed # reported THEN <<tag>> ELSE <<>>

\* result with key set to value
Put(result, key, value) ==
    [k \in DOMAIN result \cup {key} |-> IF k = key THEN value ELSE result[k]]

\* the triple-form total and the operands the checks share
TripleTotal(result) ==
    safe_int(Get(result, "triple_invoice")) + safe_int(Get(result, "register_tape"))

TaxableComputed(result) ==
    TripleTotal(result) + safe_int(Get(result, "two_form"))
      - safe_int(Get(result, "sales_returns"))

ZeroComputed(result) ==
    safe_int(Get(result, "zero_non_customs")) + safe_int(Get(result, "zero_customs"))
      - safe_int(Get(result, "zero_returns"))

GrandComputed401(result) ==
    TripleTotal(result) + safe_int(Get(result, "two_form"))
      + safe_int(Get(result, "zero_customs")) + safe_int(Get(result, "zero_non_customs"))
      + safe_int(Get(result, "exempt")) + safe_int(Get(result, "special_total"))
      + safe_int(Get(result, "other"))
      - safe_int(Get(result, "sales_returns")) - safe_int(Get(result, "zero_returns"))

GrandComputed403(result) ==
    LET special == safe_int(Get(result, "special-total"))
                     + safe_int(Get(result, "special-returns"))
    IN TripleTotal(result) + safe_int(Get(result, "two_form"))
         + safe_int(Get(result, "zero_customs")) + safe_int(Get(result, "zero_non_customs"))
         + safe_int(Get(result, "exempt")) + special + safe_int(Get(result, "other"))
         - safe_int(Get(result, "sales_returns")) - safe_int(Get(result, "zero_returns"))
         - safe_int(Get(result, "special-returns"))

\* the three checks, each appending to warnings on its own
ControlChecksElif(result, grand) ==
    IF TaxableComputed(result) # safe_int(Get(result, "taxable_total"))
    THEN <<"taxable">>
    ELSE IF ZeroComputed(result) # safe_int(Get(result, "zero_total"))
         THEN <<"zero_rate">>
         ELSE Check(grand, safe_int(Get(result, "grand_total")), "total")
ControlChecks(result, grand) ==
    Check(TaxableComputed(result), safe_int(Get(result, "taxable_total")), "taxable")
      \o Check(ZeroComputed(result), safe_int(Get(result, "zero_total")), "zero_rate")
      \o Check(grand, safe_int(Get(result, "grand_total")), "total")

\* what both post-processing functions do with the triple-form total and
\* the warnings
FinishedAccumulates(result, warnings) ==
    Put(Put(Put(result, "triple_form",
                Num(safe_int(Get(result, "triple_form")) + TripleTotal(result))),
            "warnings", warnings),
        "warnings_acknowledged", FALSE)
FinishedFixesTotal(result, warnings) ==
    Put(Put(Put(Put(result, "triple_form", Num(TripleTotal(result))),
                "taxable_total", Num(TaxableComputed(result))),
            "warnings", warnings),
        "warnings_acknowledged", FALSE)
Finished(result, warnings) ==
    Put(Put(Put(result, "triple_form", Num(TripleTotal(result))),
            "warnings", warnings),
        "warnings_acknowledged", FALSE)

post_process_401_taxable_amounts(result) ==
    Finished(result, ControlChecks(result, GrandComputed401(result)))

post_process_403_taxable_amounts(result) ==
    Finished(result, ControlChecks(result, GrandComputed403(result)))

\* ------------------------------------------- withholding-summary records
\* A record of a withholding-summary result is a dict with these keys:
\* individual_payment, non_individual_payment, individual_tax,
\* non_individual_tax (the split the model read), payment_total, tax_total
\* (the totals of the record), item (the name of the line), has_warning.
\* safe_int(value) of check_record_warnings and calculate_type2_totals:
\* int(value), which reads a text of digits and rejects any other text
safe_int_type2(value) ==
    CASE value.kind = "none" -> 0
      [] value.kind = "int" -> value.n
      [] value.kind = "numeral" -> value.n
      [] value.kind = "str" -> 0
      [] value.kind = "dash" -> 0
      [] OTHER -> 0

\* record.get(key)
GetOrNone(record, key) == IF key \in DOMAIN record THEN record[key] ELSE None

\* is_valid_tax_rate(calculate_tax_rate(tax_amount, total_amount)) for a
\* total_amount above 0: the rate lies in one of the ranges of line 696
is_valid_tax_rate(tax_amount, total_amount) ==
    \E range \in {<<0, 1>>, <<4, 6>>, <<5, 7>>, <<17, 19>>} :
      /\ range[1] * total_amount <= tax_amount * 100
      /\ tax_amount * 100 <= range[2] * total_amount

check_record_warnings(record) ==
    LET individual_payment == safe_int_type2(GetOrNone(record, "individual_payment"))
        non_individual_payment == safe_int_type2(GetOrNone(record, "non_individual_payment"))
        individual_tax == safe_int_type2(GetOrNone(record, "individual_tax"))
        non_individual_tax == safe_int_type2(GetOrNone(record, "non_individual_tax"))
        item == IF "item" \in DOMAIN record THEN record["item"] ELSE "Unknown"
        same == /\ individual_payment = non_individual_payment
                /\ individual_tax = non_individual_tax
                /\ ~(individual_payment = 0 /\ individual_tax = 0)
        rate == /\ item = "salary"
                /\ \/ /\ individual_payment > 0
                      /\ ~is_valid_tax_rate(individual_tax, individual_payment)
                   \/ /\ non_individual_payment > 0
                      /\ ~is_valid_tax_rate(non_individual_tax, non_individual_payment)
    IN IF same \/ rate THEN Put(record, "has_warning", TRUE) ELSE record

calculate_type2_totals(record) ==
    Put(Put(record, "payment_total",
            Num(safe_int_type2(GetOrNone(record, "individual_payment"))
                  + safe_int_type2(GetOrNone(record, "non_individual_payment")))),
        "tax_total",
        Num(safe_int_type2(GetOrNone(record, "individual_tax"))
              + safe_int_type2(GetOrNone(record, "non_individual_tax"))))

\* for record in result.get("records", []): ... (llm_service.py:961-968)
SummaryTotals(result) ==
    IF "records" \in DOMAIN result
    THEN Put(result, "records",
             [n \in 1..Len(result["records"]) |->
                calculate_type2_totals(check_record_warnings(result["records"][n]))])
    ELSE result

\* ------------------------------------------- determine_detected_stream
\* x.get("stream") is there and is truthy
HasStream(x) == isinstance_dict(x) /\ "stream" \in DOMAIN x /\ x["stream"] # ""

\* the list streams
Streams(llm_result) ==
    IF ~isinstance_dict(llm_result) THEN <<>>
    ELSE IF "pages" \in DOMAIN llm_result
         THEN LET pages == llm_result["pages"]
                  RECURSIVE Collect(_)
                  Collect(n) ==
                    IF n = 0 THEN <<>>
                    ELSE IF HasStream(pages[n])
                         THEN Append(Collect(n - 1), pages[n]["stream"])
                         ELSE Collect(n - 1)
              IN Collect(Len(pages))
         ELSE IF HasStream(llm_result) THEN <<llm_result["stream"]>> ELSE <<>>

Occurrences(streams, v) == Cardinality({n \in 1..Len(streams) : streams[n] = v})
FirstSeen(streams, v) == CHOOSE n \in 1..Len(streams) :
                           streams[n] = v /\ \A m \in 1..(n - 1) : streams[m] # v

\* Counter(streams).most_common(1)[0][0]: the first of the entries with the
\* largest count, the entries being kept in the order of first appearance
most_common_last(streams) ==
    CHOOSE v \in {streams[n] : n \in 1..Len(streams)} :
      \A u \in {streams[n] : n \in 1..Len(streams)} :
        \/ Occurrences(streams, v) > Occurrences(streams, u)
        \/ /\ Occurrences(streams, v) = Occurrences(streams, u)
           /\ FirstSeen(streams, v) >= FirstSeen(streams, u)
most_common(streams) ==
    CHOOSE v \in {streams[n] : n \in 1..Len(streams)} :
      \A u \in {streams[n] : n \in 1..Len(streams)} :
        \/ Occurrences(streams, v) > Occurrences(streams, u)
        \/ /\ Occurrences(streams, v) = Occurrences(streams, u)
           /\ FirstSeen(streams, v) <= FirstSeen(streams, u)

determine_detected_stream(document_type, llm_result) ==
    IF document_type \in {"401", "403"} THEN NULL
    ELSE LET streams == Streams(llm_result) IN
           IF streams = <<>> THEN NULL
           ELSE IF Cardinality({streams[n] : n \in 1..Len(streams)}) = 1
                THEN streams[1]
                ELSE most_common(streams)

\* extract_company_name_from_result(result_json, document_type)
extract_company_name_from_result(result_json, document_type) ==
    IF document_type \in {"401", "403"} THEN NULL
    ELSE IF ~isinstance_dict(result_json) THEN NULL
    ELSE IF "pages" \in DOMAIN result_json
         THEN LET pages == result_json["pages"] IN
                IF Len(pages) > 0 /\ isinstance_dict(pages[1])
                     /\ "payer_name" \in DOMAIN pages[1]
                THEN pages[1]["payer_name"] ELSE NULL
         ELSE IF "payer_name" \in DOMAIN result_json
              THEN result_json["payer_name"] ELSE NULL

\* No invocation of process_job is followed statement by statement.
NoInvocation ==
    /\ inp = NULL /\ job = NULL /\ jpc = "none" /\ page_no = 0
    /\ disk = {} /\ temp_png_files = {} /\ ocr_calls = 0 /\ llm_calls = 0
    /\ i = 0 /\ last_err = NULL /\ raw = NULL /\ page_result = NULL
    /\ all_pages_results = <<>> /\ exc = NULL /\ jret = "none"

\* No pure function is being called.
NoCall == arg = [call |-> "none"] /\ out = <<>>

\* ----------------------------------------------------------------- Init
\* The table as the pipeline finds it. The backlog rows were left in
\* PROCESSING long ago by workers that were lost; every other row is a fresh
\* upload (routes.py:558-565), of an uploader or with uploaded_by NULL.
\*   table 1: uploader 1 has NBacklog rows in the backlog and two uploads;
\*   table 2: uploader 1 has MAX_JOBS_PER_USER rows in the backlog and one
\*            upload, uploader 2 has one upload.
InBacklog(t, j) == IF t = 1 THEN j <= NBacklog ELSE j <= MAX_JOBS_PER_USER

UploaderOf(t, j) ==
    IF t = 1
    THEN IF j <= NBacklog + 2 THEN 1 ELSE NoUser
    ELSE IF j <= MAX_JOBS_PER_USER + 1 THEN 1
         ELSE IF j = MAX_JOBS_PER_USER + 2 THEN 2 ELSE NoUser

InitRow(t, j) ==
    [uploaded_by |-> UploaderOf(t, j),
     status |-> IF InBacklog(t, j) THEN "PROCESSING" ELSE "PENDING",
     age |-> IF InBacklog(t, j) THEN MaxAge ELSE 0,
     result_json |-> NULL,
     detected_stream |-> NULL,
     detected_company_name |-> NULL,
     error_message |-> NULL]

Init ==
    /\ \E t \in Tables : jobs = [j \in Jobs |-> InitRow(t, j)]
    /\ msgs = [j \in Jobs |-> 0]
    /\ pc = [w \in Workers |-> "idle"]
    /\ wjob = [w \in Workers |-> 0]
    /\ requeued = [w \in Workers |-> FALSE]
    /\ ret = [w \in Workers |-> "none"]
    /\ dpc = "idle"
    /\ dusers = {}
    /\ duser = NoUser
    /\ dcount = 0
    /\ lost = 0
    /\ NoInvocation
    /\ NoCall

\* ---------------------------------------------------------- process_job
\* return {"status": r, "job_id": job_id}
Return(w, r) ==
    /\ pc' = [pc EXCEPT ![w] = "done"]
    /\ ret' = [ret EXCEPT ![w] = r]

\* The broker hands a queued message to a free worker (at-least-once
\* delivery: the queue may hold several messages for one job) and the task
\* starts: job = TaxOcrJob.query.get(job_id) and the checks on the loaded row.
Start(w, j) ==
    /\ pc[w] = "idle"
    /\ msgs[j] > 0
    /\ msgs' = [msgs EXCEPT ![j] = @ - 1]
    /\ wjob' = [wjob EXCEPT ![w] = j]
    /\ LET e == Entry(jobs[j]) IN
         IF e \in {"already_completed", "already_processing"}
         THEN Return(w, e)
         ELSE /\ pc' = [pc EXCEPT ![w] = e]
              /\ UNCHANGED ret
    /\ UNCHANGED <<jobs, requeued, dvars, lost>>
    /\ UNCHANGED <<jvars, fvars>>

\* job.status = "PENDING"; db.session.commit()
Requeue(w) ==
    /\ pc[w] = "requeue"
    /\ jobs' = [jobs EXCEPT ![wjob[w]].status = "PENDING", ![wjob[w]].age = 0]
    /\ pc' = [pc EXCEPT ![w] = "claim"]
    /\ requeued' = [requeued EXCEPT ![w] = TRUE]
    /\ UNCHANGED <<msgs, wjob, ret, dvars, lost>>
    /\ UNCHANGED <<jvars, fvars>>

\* job.status = "PROCESSING"; db.session.commit()
Claim(w) ==
    /\ pc[w] = "claim"
    /\ jobs' = [jobs EXCEPT ![wjob[w]].status = "PROCESSING", ![wjob[w]].age = 0]
    /\ pc' = [pc EXCEPT ![w] = "run"]
    /\ UNCHANGED <<msgs, wjob, requeued, ret, dvars, lost>>
    /\ UNCHANGED <<jvars, fvars>>

\* The file checks and the page loop went through; the result is saved.
Save(w) ==
    /\ pc[w] = "run"
    /\ jobs' = [jobs EXCEPT ![wjob[w]] =
                  [uploaded_by |-> @.uploaded_by,
                   status |-> "COMPLETED",
                   age |-> 0,
                   result_json |-> "final_result",
                   detected_stream |-> "detected_stream",
                   detected_company_name |-> "detected_company_name",
                   error_message |-> NULL]]
    /\ Return(w, "success")
    /\ UNCHANGED <<msgs, wjob, requeued, dvars, lost>>
    /\ UNCHANGED <<jvars, fvars>>

\* A step raised; the except block loads the job again and marks it.
Fail(w) ==
    /\ pc[w] = "run"
    /\ jobs' = [jobs EXCEPT ![wjob[w]].status = "FAILED",
                            ![wjob[w]].error_message = "str(e)",
                            ![wjob[w]].age = 0]
    /\ Return(w, "failed")
    /\ UNCHANGED <<msgs, wjob, requeued, dvars, lost>>
    /\ UNCHANGED <<jvars, fvars>>

\* task_acks_late: the message is acknowledged once the task has returned,
\* and the worker is free again.
Ack(w) ==
    /\ pc[w] = "done"
    /\ pc' = [pc EXCEPT ![w] = "idle"]
    /\ wjob' = [wjob EXCEPT ![w] = 0]
    /\ requeued' = [requeued EXCEPT ![w] = FALSE]
    /\ ret' = [ret EXCEPT ![w] = "none"]
    /\ UNCHANGED <<jobs, msgs, dvars, lost>>
    /\ UNCHANGED <<jvars, fvars>>

\* The worker process is stopped while the page loop runs: by the hard time
\* limit (task_time_limit) or because the process died, in which case
\* task_reject_on_worker_lost puts the message back. Nothing is written.
Lost(w, back) ==
    /\ pc[w] = "run"
    /\ lost < MaxLost
    /\ lost' = lost + 1
    /\ back => msgs[wjob[w]] < MaxMsgs /\ Queued(msgs, NJobs) < MaxQueue
    /\ msgs' = IF back THEN [msgs EXCEPT ![wjob[w]] = @ + 1] ELSE msgs
    /\ pc' = [pc EXCEPT ![w] = "idle"]
    /\ wjob' = [wjob EXCEPT ![w] = 0]
    /\ requeued' = [requeued EXCEPT ![w] = FALSE]
    /\ UNCHANGED <<jobs, ret, dvars>>
    /\ UNCHANGED <<jvars, fvars>>

\* ------------------------------------ process_job, statement by statement
PROMPT_TYPE_MAPPING ==
    [d \in {"401", "403", "withholding-slip", "withholding-statement", "dividend-slip"} |->
       CASE d = "401" -> "GROUP_A_401"
         [] d = "403" -> "GROUP_A_403"
         [] d = "withholding-slip" -> "GROUP_B_CERTIFICATE_PAYMENT"
         [] d = "withholding-statement" -> "GROUP_B_SUMMARY_PAYMENT"
         [] d = "dividend-slip" -> "GROUP_B_DIVIDEND_PAYMENT"]

\* An exception: its class and the message it was built with (cause is the
\* text of the error the message quotes, if it quotes one).
Exception(type, text, cause) == [type |-> type, text |-> text, cause |-> cause]

\* last_err = None; str(None) is "None"
NoException == Exception(NULL, "None", NULL)

\* str(e): the message, without the class
Msg(text, cause) == [text |-> text, cause |-> cause]
NoMsg == Msg(NULL, NULL)
str_generic(x) == Msg("failed", NULL)
str(x) == Msg(x.text, x.cause)

\* raise x inside the try block of process_job
Raise(x) ==
    /\ exc' = x
    /\ jpc' = "except"

\* total_pages (tasks.py:127-130)
total_pages == IF inp.file = "pdf" THEN inp.pages ELSE 1

\* job.status = "PROCESSING"; db.session.commit()
JClaim ==
    /\ jpc = "claim"
    /\ job' = [job EXCEPT !.status = "PROCESSING"]
    /\ jpc' = "checks"
    /\ UNCHANGED <<inp, page_no, disk, temp_png_files, ocr_calls, llm_calls, i,
                   last_err, raw, page_result, all_pages_results, exc, jret>>
    /\ UNCHANGED <<pvars, fvars>>

\* The checks before the page loop: the file exists, its format is
\* supported, the document_type has a prompt type.
JChecksNoFormatCheck ==
    /\ jpc = "checks"
    /\ IF inp.file = "missing"
       THEN Raise(Exception("FileNotFoundError", "file does not exist", NULL))
       ELSE IF job.document_type \notin DOMAIN PROMPT_TYPE_MAPPING
       THEN Raise(Exception("ValueError", "unknown document_type", NULL))
       ELSE jpc' = "ocr" /\ UNCHANGED exc
    /\ UNCHANGED <<inp, job, page_no, disk, temp_png_files, ocr_calls, llm_calls, i,
                   last_err, raw, page_result, all_pages_results, jret>>
    /\ UNCHANGED <<pvars, fvars>>
JChecks ==
    /\ jpc = "checks"
    /\ IF inp.file = "missing"
       THEN Raise(Exception("FileNotFoundError", "file does not exist", NULL))
       ELSE IF inp.file = "unsupported"
       THEN Raise(Exception("ValueError", "unsupported file format", NULL))
       ELSE IF job.document_type \notin DOMAIN PROMPT_TYPE_MAPPING
       THEN Raise(Exception("ValueError", "unknown document_type", NULL))
       ELSE jpc' = "ocr" /\ UNCHANGED exc
    /\ UNCHANGED <<inp, job, page_no, disk, temp_png_files, ocr_calls, llm_calls, i,
                   last_err, raw, page_result, all_pages_results, jret>>
    /\ UNCHANGED <<pvars, fvars>>

\* run_ocr_on_page: the page is written to a PNG (an image that is a small
\* PNG already is used as it is), then the OCR service is called; the path
\* is appended to temp_png_files once the call has returned.
PngPath == IF inp.file = "small_png" THEN 0 ELSE page_no + 1

JOcr(outcome) ==
    /\ jpc = "ocr"
    /\ IF outcome = "png_error"
       THEN /\ Raise(Exception("ValueError", "image conversion failed", NULL))
            /\ UNCHANGED <<disk, ocr_calls, temp_png_files, i, last_err>>
       ELSE /\ disk' = disk \cup {PngPath}
            /\ ocr_calls' = ocr_calls + 1
            /\ IF outcome = "ocr_error"
               THEN /\ Raise(Exception("HttpResponseError", "OCR failed", NULL))
                    /\ UNCHANGED <<temp_png_files, i, last_err>>
               ELSE /\ temp_png_files' = temp_png_files \cup {PngPath}
                    /\ jpc' = "llm"
                    /\ i' = 1
                    /\ last_err' = NoException
                    /\ UNCHANGED exc
    /\ UNCHANGED <<inp, job, page_no, llm_calls, raw, page_result, all_pages_results, jret>>
    /\ UNCHANGED <<pvars, fvars>>

\* ---------------------------------------------------- run_llm_extraction
\* What the model may answer: text that json.loads accepts ("json"), text
\* that it accepts after the repair ("repairable"), text that it rejects
\* both times ("garbage"). The figures are those of a return with three-part
\* invoices 100, register-tape invoices "50", two-part invoices 30 and
\* zero-rate sales through customs 10, with each reported total right or
\* wrong.
Report(taxable_total, zero_total, grand_total) ==
    [k \in {"triple_invoice", "register_tape", "two_form", "zero_customs",
            "taxable_total", "zero_total", "grand_total"} |->
       CASE k = "triple_invoice" -> Num(100)
         [] k = "register_tape" -> Str(50)
         [] k = "two_form" -> Num(30)
         [] k = "zero_customs" -> Num(10)
         [] k = "taxable_total" -> Num(taxable_total)
         [] k = "zero_total" -> Num(zero_total)
         [] k = "grand_total" -> Num(grand_total)]

Reports == {Report(a, b, c) : a \in {180, 179}, b \in {10, 0}, c \in {190, 189}}

\* {"sales": null}
NullSales == [sales |-> None]

Slips == {[stream |-> t, payer_name |-> "payer"] : t \in {"income", "expense", ""}}
           \cup {[payer_name |-> "payer"]}

Values(document_type) ==
    IF document_type \in {"401", "403"}
    THEN Reports \cup {NullSales, NotADict}
    ELSE Slips \cup {NotADict}

Responses(document_type) ==
    {[text |-> t, value |-> v] : t \in {"json", "repairable"}, v \in Values(document_type)}
      \cup {[text |-> "garbage", value |-> NotADict]}

\* the call raises instead of returning a response
ApiError == [text |-> "api_error", value |-> NotADict]

\* what a call of chat.completions.create may do
Outcomes ==
    UNION {Responses(d) : d \in DOMAIN PROMPT_TYPE_MAPPING} \cup {ApiError}

\* the attempt raised x: except Exception as e: last_err = e
AttemptFailed(x) ==
    /\ last_err' = x
    /\ i' = i + 1
    /\ jpc' = "llm"

\* for i in range(1, retry_count + 1)
InLoopOneMore(n, retry_count) == n <= retry_count + 1
InLoop(n, retry_count) == n <= retry_count

\* One pass of the retry loop up to the response: the call of
\* chat.completions.create, which returns a response or raises.
LlmCall(response) ==
    /\ jpc = "llm"
    /\ InLoop(i, inp.retry_count)
    /\ llm_calls' = llm_calls + 1
    /\ IF response = ApiError
       THEN AttemptFailed(Exception("APIError", "connection error", NULL)) /\ UNCHANGED raw
       ELSE /\ response \in Responses(job.document_type)
            /\ raw' = response
            /\ jpc' = "parse"
            /\ UNCHANGED <<i, last_err>>
    /\ UNCHANGED <<inp, job, page_no, disk, temp_png_files, ocr_calls, page_result,
                   all_pages_results, exc, jret>>
    /\ UNCHANGED <<pvars, fvars>>

\* The rest of the pass: json.loads, the repair and the second json.loads,
\* the post-processing of the group, return result. Whatever is raised on
\* the way is caught by the loop.
PostProcess(group_type, result) ==
    CASE group_type = "GROUP_A_401" -> post_process_401_taxable_amounts(result)
      [] group_type = "GROUP_A_403" -> post_process_403_taxable_amounts(result)
      [] group_type \in {"GROUP_B_SUMMARY_PAYMENT", "GROUP_B_SUMMARY_INCOME"} ->
           SummaryTotals(result)
      [] OTHER -> result

PostProcessRejectsMismatch(group_type, result) ==
    /\ group_type \in {"GROUP_A_401", "GROUP_A_403"}
    /\ \/ AttributeError(result)
       \/ PostProcess(group_type, result)["warnings"] # <<>>
PostProcessRaises(group_type, result) ==
    /\ group_type \in {"GROUP_A_401", "GROUP_A_403",
                       "GROUP_B_SUMMARY_PAYMENT", "GROUP_B_SUMMARY_INCOME"}
    /\ AttributeError(result)

LlmParse ==
    /\ jpc = "parse"
    /\ LET group_type == PROMPT_TYPE_MAPPING[job.document_type] IN
         IF raw.text = "garbage"
         THEN AttemptFailed(Exception("RuntimeError", "LLM extraction failed: JSON error", NULL))
                /\ UNCHANGED page_result
         ELSE IF PostProcessRaises(group_type, raw.value)
         THEN AttemptFailed(Exception("AttributeError", "object has no attribute 'get'", NULL))
                /\ UNCHANGED page_result
         ELSE /\ page_result' = PostProcess(group_type, raw.value)
              /\ jpc' = "returned"
              /\ UNCHANGED <<i, last_err>>
    /\ raw' = NULL
    /\ UNCHANGED <<inp, job, page_no, disk, temp_png_files, ocr_calls, llm_calls,
                   all_pages_results, exc, jret>>
    /\ UNCHANGED <<pvars, fvars>>

\* The loop is over: raise RuntimeError(f"... {last_err}")
LlmExhausted ==
    /\ jpc = "llm"
    /\ ~InLoop(i, inp.retry_count)
    /\ Raise(Exception("RuntimeError", "LLM extraction failed",
                       last_err.text))
    /\ UNCHANGED <<inp, job, page_no, disk, temp_png_files, ocr_calls, llm_calls, i,
                   last_err, raw, page_result, all_pages_results, jret>>
    /\ UNCHANGED <<pvars, fvars>>

\* ------------------------------------------- process_job, after the call
\* The page number and the page count are written into a dict, the result
\* is appended and the loop goes on.
Tagged(result) ==
    IF isinstance_dict(result)
    THEN Put(Put(result, "page", page_no + 1), "total_pages", total_pages)
    ELSE result

NextPage ==
    /\ jpc = "returned"
    /\ all_pages_results' = Append(all_pages_results, Tagged(page_result))
    /\ page_no' = page_no + 1
    /\ page_result' = NULL
    /\ jpc' = IF page_no + 1 < total_pages THEN "ocr" ELSE "save"
    /\ UNCHANGED <<inp, job, disk, temp_png_files, ocr_calls, llm_calls, i, last_err,
                   raw, exc, jret>>
    /\ UNCHANGED <<pvars, fvars>>

\* The result is put together and saved with status COMPLETED; then
\* cleanup_temp_files(temp_png_files) and return.
FinalResult ==
    IF total_pages = 1 THEN all_pages_results[1] ELSE [pages |-> all_pages_results]

JSave ==
    /\ jpc = "save"
    /\ job' = [job EXCEPT
                 !.status = "COMPLETED",
                 !.result_json = FinalResult,
                 !.detected_stream = determine_detected_stream(job.document_type, FinalResult),
                 !.detected_company_name =
                     extract_company_name_from_result(FinalResult, job.document_type),
                 !.error_message = NoMsg]
    /\ disk' = disk \ temp_png_files
    /\ jret' = "success"
    /\ jpc' = "done"
    /\ UNCHANGED <<inp, page_no, temp_png_files, ocr_calls, llm_calls, i, last_err,
                   raw, page_result, all_pages_results, exc>>
    /\ UNCHANGED <<pvars, fvars>>

\* except Exception as e: the job is loaded again, marked FAILED with
\* str(e), and the task returns.
JFail ==
    /\ jpc = "except"
    /\ job' = [job EXCEPT !.status = "FAILED", !.error_message = str(exc)]
    /\ jret' = "failed"
    /\ jpc' = "done"
    /\ UNCHANGED <<inp, page_no, disk, temp_png_files, ocr_calls, llm_calls, i,
                   last_err, raw, page_result, all_pages_results, exc>>
    /\ UNCHANGED <<pvars, fvars>>

\* --------------------------------------------------- dispatch_jobs_task
Finish(u) ==
    /\ dusers' = dusers \ {u}
    /\ dpc' = IF dusers \ {u} = {} THEN "idle" ELSE "loop"
    /\ duser' = NoUser
    /\ dcount' = 0

\* The beat schedule starts a cycle: the query for pending_user_ids.
Scan ==
    /\ dpc = "idle"
    /\ PendingUsers # {}
    /\ dusers' = PendingUsers
    /\ dpc' = "loop"
    /\ UNCHANGED <<jobs, msgs, wvars, duser, dcount, lost>>
    /\ UNCHANGED <<jvars, fvars>>

\* processing_count query of one iteration and the available_slots test.
Count(u) ==
    /\ dpc = "loop"
    /\ u \in dusers
    /\ LET p == Cardinality(ProcessingOf(u)) IN
         IF AvailableSlots(p) <= 0
         THEN Finish(u)
         ELSE /\ dpc' = "select"
              /\ duser' = u
              /\ dcount' = p
              /\ UNCHANGED dusers
    /\ UNCHANGED <<jobs, msgs, wvars, lost>>
    /\ UNCHANGED <<jvars, fvars>>

\* next_jobs query of the iteration and process_job.delay for each row.
Select ==
    /\ dpc = "select"
    /\ LET next_jobs == NextJobs(duser, AvailableSlots(dcount)) IN
         /\ \A j \in next_jobs : msgs[j] < MaxMsgs
         /\ Queued(msgs, NJobs) + Cardinality(next_jobs) <= MaxQueue
         /\ msgs' = [j \in Jobs |-> IF j \in next_jobs THEN msgs[j] + 1 ELSE msgs[j]]
         /\ Finish(duser)
    /\ UNCHANGED <<jobs, wvars, lost>>
    /\ UNCHANGED <<jvars, fvars>>

\* ---------------------------------------------------------------- clock
\* TickMinutes pass. A task lasts seconds to minutes and never more than
\* task_time_limit (celery_app.py:28), so the clock is read between tasks.
Tick ==
    /\ \A w \in Workers : pc[w] = "idle"
    /\ \E j \in Jobs : jobs[j].status = "PROCESSING" /\ jobs[j].age < MaxAge
    /\ jobs' = [j \in Jobs |->
                  IF jobs[j].status = "PROCESSING"
                  THEN [jobs[j] EXCEPT !.age = Min(@ + 1, MaxAge)]
                  ELSE jobs[j]]
    /\ UNCHANGED <<msgs, wvars, dvars, lost>>
    /\ UNCHANGED <<jvars, fvars>>

Next ==
    \/ \E w \in Workers, j \in Jobs : Start(w, j)
    \/ \E w \in Workers : Requeue(w)
    \/ \E w \in Workers : Claim(w)
    \/ \E w \in Workers : Save(w)
    \/ \E w \in Workers : Fail(w)
    \/ \E w \in Workers : Ack(w)
    \/ \E w \in Workers, back \in BOOLEAN : Lost(w, back)
    \/ Scan
    \/ \E u \in Users \cup {NoUser} : Count(u)
    \/ Select
    \/ Tick

Spec == Init /\ [][Next]_vars

\* ------------------------------------------- one invocation of process_job
\* The pipeline stands still while one invocation is followed.
InitPipeline ==
    /\ jobs = [j \in Jobs |-> InitRow(1, j)]
    /\ msgs = [j \in Jobs |-> 0]
    /\ pc = [w \in Workers |-> "idle"]
    /\ wjob = [w \in Workers |-> 0]
    /\ requeued = [w \in Workers |-> FALSE]
    /\ ret = [w \in Workers |-> "none"]
    /\ dpc = "idle"
    /\ dusers = {}
    /\ duser = NoUser
    /\ dcount = 0
    /\ lost = 0

DocumentTypes == {"401", "403", "withholding-slip", "dividend-slip", "unknown"}
Files == {"missing", "unsupported", "pdf", "image", "small_png"}

\* The rows process_job goes on to claim: a fresh upload; a job that was
\* completed before and set back to PENDING through the job route
\* (routes.py:489); a FAILED job (there is no check for FAILED at entry).
OldResult == [payer_name |-> "old payer"]

Rows ==
    {[document_type |-> d, status |-> "PENDING", result_json |-> NoResult,
      detected_stream |-> NULL, detected_company_name |-> NULL,
      error_message |-> NoMsg] : d \in DocumentTypes}
    \cup
    {[document_type |-> d, status |-> "PENDING", result_json |-> OldResult,
      detected_stream |-> "expense", detected_company_name |-> "old payer",
      error_message |-> NoMsg] : d \in DocumentTypes}
    \cup
    {[document_type |-> d, status |-> "FAILED", result_json |-> NoResult,
      detected_stream |-> NULL, detected_company_name |-> NULL,
      error_message |-> Msg("old error", NULL)] : d \in DocumentTypes}

Inputs ==
    {[file |-> f, pages |-> n, retry_count |-> MAX_LLM_RETRY] :
       f \in Files, n \in 1..MaxPages} \ 
    {[file |-> f, pages |-> n, retry_count |-> MAX_LLM_RETRY] :
       f \in Files \ {"pdf"}, n \in 2..MaxPages}

InitLocals ==
    /\ page_no = 0
    /\ temp_png_files = {}
    /\ ocr_calls = 0
    /\ llm_calls = 0
    /\ last_err = NoException
    /\ raw = NULL
    /\ page_result = NULL
    /\ all_pages_results = <<>>
    /\ exc = NoException
    /\ jret = "none"

InitJob ==
    /\ InitPipeline
    /\ NoCall
    /\ inp \in Inputs
    /\ job \in Rows
    /\ jpc = "claim"
    /\ disk = IF inp.file = "missing" THEN {} ELSE {0}
    /\ i = 0
    /\ InitLocals

NextJob ==
    \/ JClaim
    \/ JChecks
    \/ \E outcome \in {"ok", "png_error", "ocr_error"} : JOcr(outcome)
    \/ \E response \in Outcomes : LlmCall(response)
    \/ LlmParse
    \/ LlmExhausted
    \/ NextPage
    \/ JSave
    \/ JFail

SpecJob == InitJob /\ [][NextJob]_vars

\* ---------------------------------------- one call of run_llm_extraction
\* The call as any caller may make it: a prompt group and a retry_count.
InitLlm ==
    /\ InitPipeline
    /\ NoCall
    /\ inp \in {[file |-> "image", pages |-> 1, retry_count |-> n] : n \in 0..MaxRetry}
    /\ job \in {r \in Rows : r.status = "PENDING" /\ r.result_json = NoResult
                               /\ r.document_type \in DOMAIN PROMPT_TYPE_MAPPING}
    /\ jpc = "llm"
    /\ disk = {0, 1}
    /\ i = 1
    /\ InitLocals

NextLlm ==
    \/ \E response \in Outcomes : LlmCall(response)
    \/ LlmParse
    \/ LlmExhausted

SpecLlm == InitLlm /\ [][NextLlm]_vars

\* The process_job variables while a pure function is called on its own.
InitNoJob ==
    /\ InitPipeline
    /\ inp = NULL /\ job = NULL /\ jpc = "none" /\ disk = {} /\ i = 0
    /\ InitLocals

\* ------------------------------------ a call of determine_detected_stream
\* A page object: a dict with a stream tag ("" is a tag that is falsy), a
\* dict without one, or a value that is not a dict.
PageObjects == Slips \cup {NotADict}

RECURSIVE Lists(_, _)
Lists(S, n) ==
    IF n = 0 THEN {<<>>}
    ELSE Lists(S, n - 1) \cup {Append(l, x) : l \in {m \in Lists(S, n - 1) : Len(m) = n - 1}, x \in S}

\* llm_result: a single page object, or the wrapper of a multi-page result
InitStream ==
    /\ InitNoJob
    /\ \E d \in {"401", "403", "withholding-slip", "dividend-slip"},
          r \in PageObjects \cup {[pages |-> l] : l \in Lists(PageObjects, MaxTags)} :
         arg = [document_type |-> d, llm_result |-> r]
    /\ out = <<>>

CallStream ==
    /\ out = <<>>
    /\ out' = <<determine_detected_stream(arg.document_type, arg.llm_result)>>
    /\ UNCHANGED <<arg, pvars, jvars>>

NextStream == CallStream

SpecStream == InitStream /\ [][NextStream]_vars

\* --------------------------- a call of post_process_40x_taxable_amounts
\* The results handed to the control checks: amounts up to MaxAmount (the
\* two-part invoices also as text or null), the special-tax returns of form
\* 403, and reported totals up to MaxTotal (the taxable total may be
\* missing).
Amounts == {Num(n) : n \in 0..MaxAmount}
\* The register tape and the sales returns enter every sum beside the
\* triple-form invoices, which take every amount: they take the least and
\* the greatest one.
Extremes == {Num(0), Num(MaxAmount)}
Totals == {Num(n) : n \in 0..MaxTotal}

Sales(a, b, c, d, z, s, t, u, v) ==
    [k \in {"triple_invoice", "register_tape", "two_form", "sales_returns",
            "zero_customs", "special-returns", "taxable_total", "zero_total",
            "grand_total"} |->
       CASE k = "triple_invoice" -> a
         [] k = "register_tape" -> b
         [] k = "two_form" -> c
         [] k = "sales_returns" -> d
         [] k = "zero_customs" -> z
         [] k = "special-returns" -> s
         [] k = "taxable_total" -> t
         [] k = "zero_total" -> u
         [] k = "grand_total" -> v]

\* del result[key]
Without(result, key) == [k \in DOMAIN result \ {key} |-> result[k]]

\* A response that carries the keys the post-processing writes: its own
\* triple-form total, a warnings list and warnings_acknowledged true.
WithDerived(result) ==
    Put(Put(Put(result, "triple_form", Num(MaxTotal)),
            "warnings", <<"total", "total">>),
        "warnings_acknowledged", TRUE)

InitPost ==
    /\ InitNoJob
    /\ \E f \in {"401", "403"},
          a \in Amounts, b \in Extremes,
          c \in Amounts \cup {Str(MaxAmount), Dash, Junk, None},
          d \in Extremes, z \in Amounts, s \in Amounts,
          t \in Totals \cup {None}, u \in Totals, v \in Totals,
          m \in BOOLEAN :
         LET sales == IF t = None
                      THEN Without(Sales(a, b, c, d, z, s, t, u, v), "taxable_total")
                      ELSE Sales(a, b, c, d, z, s, t, u, v)
         IN arg = [form |-> f,
                   result |-> IF m THEN WithDerived(sales) ELSE sales]
    /\ out = <<>>

CallPost ==
    /\ out = <<>>
    /\ out' = <<PostProcess(PROMPT_TYPE_MAPPING[arg.form], arg.result)>>
    /\ UNCHANGED <<arg, pvars, jvars>>

\* The function is called once more, on the dict it has returned.
CallPostAgain ==
    /\ Len(out) = 1
    /\ out' = Append(out, PostProcess(PROMPT_TYPE_MAPPING[arg.form], out[1]))
    /\ UNCHANGED <<arg, pvars, jvars>>

NextPost ==
    \/ CallPost
    \/ CallPostAgain

SpecPost == InitPost /\ [][NextPost]_vars

\* ------------------------------------------------------- the repair pass
\* A text is a sequence of characters. "k" stands for the five characters
\* of the key name of the fiscal-period field (llm_service.py:1009), and a
\* placeholder __DATE_PLACEHOLDER_n__ is kept as one character: its digits
\* stand between underscores, where no expression can begin or end.
Quote == "\""
Digits == {"0", "1", "2", "3", "4", "5", "6", "7", "8", "9"}
Placeholders == <<"__DATE_PLACEHOLDER_0__", "__DATE_PLACEHOLDER_1__",
                  "__DATE_PLACEHOLDER_2__", "__DATE_PLACEHOLDER_3__">>

\* str.isdigit() and \d; \s
isdigit(c) == c \in Digits
isspace(c) == c \in {" ", "\n"}

DigitValue(c) ==
    CASE c = "0" -> 0 [] c = "1" -> 1 [] c = "2" -> 2 [] c = "3" -> 3
      [] c = "4" -> 4 [] c = "5" -> 5 [] c = "6" -> 6 [] c = "7" -> 7
      [] c = "8" -> 8 [] c = "9" -> 9

DigitChar(n) ==
    CASE n = 0 -> "0" [] n = 1 -> "1" [] n = 2 -> "2" [] n = 3 -> "3"
      [] n = 4 -> "4" [] n = 5 -> "5" [] n = 6 -> "6" [] n = 7 -> "7"
      [] n = 8 -> "8" [] n = 9 -> "9"

\* int(current_num)
RECURSIVE int(_)
int(s) ==
    IF s = <<>> THEN 0
    ELSE 10 * int(SubSeq(s, 1, Len(s) - 1)) + DigitValue(s[Len(s)])

\* str(result)
RECURSIVE Decimal(_)
Decimal(n) ==
    IF n < 0 THEN <<"-">> \o Decimal(0 - n)
    ELSE IF n < 10 THEN <<DigitChar(n)>>
    ELSE Decimal(n \div 10) \o <<DigitChar(n % 10)>>

\* text.startswith(prefix), text.endswith(suffix), text.strip()
startswith(text, prefix) ==
    Len(text) >= Len(prefix) /\ SubSeq(text, 1, Len(prefix)) = prefix
endswith(text, suffix) ==
    Len(text) >= Len(suffix)
      /\ SubSeq(text, Len(text) - Len(suffix) + 1, Len(text)) = suffix

RECURSIVE strip(_)
strip(text) ==
    IF text # <<>> /\ isspace(text[1]) THEN strip(Tail(text))
    ELSE IF text # <<>> /\ isspace(text[Len(text)])
         THEN strip(SubSeq(text, 1, Len(text) - 1))
         ELSE text

\* The Markdown fence is taken off (llm_service.py:997-1004).
\* (the backquote is written "bq")
Fence == <<"bq", "bq", "bq">>
FenceJson == Fence \o <<"j", "s", "o", "n">>

StripFence(content) ==
    LET c0 == strip(content)
        c1 == IF startswith(c0, FenceJson) THEN SubSeq(c0, 8, Len(c0)) ELSE c0
        c2 == IF startswith(c1, Fence) THEN SubSeq(c1, 4, Len(c1)) ELSE c1
        c3 == IF endswith(c2, Fence) THEN SubSeq(c2, 1, Len(c2) - 3) ELSE c2
    IN strip(c3)

\* The position after the digits, or the white space, that begin at p.
RECURSIVE DigitsEnd(_, _)
DigitsEnd(text, p) ==
    IF p <= Len(text) /\ isdigit(text[p]) THEN DigitsEnd(text, p + 1) ELSE p

RECURSIVE SpacesEnd(_, _)
SpacesEnd(text, p) ==
    IF p <= Len(text) /\ isspace(text[p]) THEN SpacesEnd(text, p + 1) ELSE p

\* date_pattern at p: the position after the match, 0 if there is none
RECURSIVE QuoteFrom(_, _)
QuoteFrom(text, p) ==
    IF p > Len(text) THEN 0
    ELSE IF text[p] = Quote THEN p ELSE QuoteFrom(text, p + 1)

DateEnd(text, p) ==
    IF p + 2 <= Len(text) /\ SubSeq(text, p, p + 2) = <<Quote, "k", Quote>>
    THEN LET a == SpacesEnd(text, p + 3) IN
           IF a <= Len(text) /\ text[a] = ":"
           THEN LET b == SpacesEnd(text, a + 1) IN
                  IF b <= Len(text) /\ text[b] = Quote
                  THEN LET c == QuoteFrom(text, b + 1) IN
                         IF c = 0 THEN 0 ELSE c + 1
                  ELSE 0
           ELSE 0
    ELSE 0

\* re.findall(date_pattern, cleaned)
RECURSIVE findall_date(_, _)
findall_date(text, p) ==
    IF p > Len(text) THEN <<>>
    ELSE LET e == DateEnd(text, p) IN
           IF e # 0 THEN <<SubSeq(text, p, e - 1)>> \o findall_date(text, e)
           ELSE findall_date(text, p + 1)

\* text.replace(old, new)
RECURSIVE replace(_, _, _)
replace(text, old, new) ==
    IF text = <<>> THEN <<>>
    ELSE IF startswith(text, old)
         THEN new \o replace(SubSeq(text, Len(old) + 1, Len(text)), old, new)
         ELSE <<text[1]>> \o replace(Tail(text), old, new)

\* for idx, match in enumerate(date_matches): cleaned.replace(match, placeholder)
RECURSIVE Protect(_, _, _)
Protect(text, date_matches, idx) ==
    IF idx >= Len(date_matches) THEN text
    ELSE Protect(replace(text, date_matches[idx + 1], <<Placeholders[idx + 1]>>),
                 date_matches, idx + 1)

\* for placeholder, original in date_placeholders.items(): ...
RECURSIVE Restore(_, _, _)
Restore(text, date_matches, idx) ==
    IF idx >= Len(date_matches) THEN text
    ELSE Restore(replace(text, <<Placeholders[idx + 1]>>, date_matches[idx + 1]),
                 date_matches, idx + 1)

\* The loop of safe_eval_math_expr over expr_clean followed by a plus sign.
RECURSIVE Accumulate(_, _, _, _, _)
Accumulate(s, n, result, current_num, current_op) ==
    IF n > Len(s) THEN result
    ELSE IF isdigit(s[n])
    THEN Accumulate(s, n + 1, result, Append(current_num, s[n]), current_op)
    ELSE IF s[n] \in {"+", "-"}
    THEN IF current_num # <<>>
         THEN Accumulate(s, n + 1,
                         IF current_op = "+" THEN result + int(current_num)
                         ELSE result - int(current_num),
                         <<>>, s[n])
         ELSE Accumulate(s, n + 1, result, current_num, s[n])
    ELSE Accumulate(s, n + 1, result, current_num, current_op)

\* safe_eval_math_expr(match): a match holds digits, white space, + and -
\* only, so the test of line 1025 goes through
safe_eval_math_expr(expr) ==
    LET expr_clean == SelectSeq(expr, LAMBDA c : c # " ")
    IN Decimal(Accumulate(expr_clean \o <<"+">>, 1, 0, <<>>, "+"))

\* \s*[\+\-]\s*\d+ at p: the position after it, 0 if it does not match
TermEnd(text, p) ==
    LET a == SpacesEnd(text, p) IN
      IF a <= Len(text) /\ text[a] \in {"+", "-"}
      THEN LET b == SpacesEnd(text, a + 1)
               c == DigitsEnd(text, b)
           IN IF c > b THEN c ELSE 0
      ELSE 0

RECURSIVE TermsEnd(_, _)
TermsEnd(text, p) ==
    LET e == TermEnd(text, p) IN IF e = 0 THEN p ELSE TermsEnd(text, e)

\* \d+\s*[\+\-]\s*\d+(?:\s*[\+\-]\s*\d+)* at p
MatchEnd(text, p) ==
    LET d == DigitsEnd(text, p) IN
      IF d = p THEN 0
      ELSE LET e == TermEnd(text, d) IN
             IF e = 0 THEN 0 ELSE TermsEnd(text, e)

\* re.sub(pattern, safe_eval_math_expr, cleaned)
RECURSIVE sub(_, _)
sub(text, p) ==
    IF p > Len(text) THEN <<>>
    ELSE LET e == MatchEnd(text, p) IN
           IF e # 0 THEN safe_eval_math_expr(SubSeq(text, p, e - 1)) \o sub(text, e)
           ELSE <<text[p]>> \o sub(text, p + 1)

\* The repair of a response json.loads has rejected: cleaned, as the second
\* json.loads gets it.
Repair(content) ==
    LET cleaned == StripFence(content)
        date_matches == findall_date(cleaned, 1)
    IN Restore(sub(Protect(cleaned, date_matches, 0), 1), date_matches, 0)

\* ------------------------------------------------ a call of the repair pass
\* The responses handed to the repair: a JSON object of three fields, with
\* or without a Markdown fence around it. A field is written from an
\* expression, the integers ns joined by the signs ops with the spacing
\* given (none, blanks, or a line break after each sign):
\*   "expr"     "a": 12 + 105          the expression is the value
\*   "negative" "a": -12 + 105         the same after a minus sign
\*   "quoted"   "b": "12 + 105"        the expression inside a text
\*   "date"     "k": "113y12 + 105m"   the fiscal-period field
\*   "number"   "a": 12                a single integer, no expression
Numbers == {9, 12, 105}

Field(kind, ns, ops, spacing) ==
    [kind |-> kind, ns |-> ns, ops |-> ops, spacing |-> spacing]

Blank(spacing, after) ==
    CASE spacing = "none" -> <<>>
      [] spacing = "blank" -> <<" ">>
      [] spacing = "break" -> IF after THEN <<"\n">> ELSE <<>>

RECURSIVE Expression(_, _)
Expression(f, n) ==
    IF n = 1 THEN Decimal(f.ns[1])
    ELSE Expression(f, n - 1) \o Blank(f.spacing, FALSE) \o <<f.ops[n - 1]>>
           \o Blank(f.spacing, TRUE) \o Decimal(f.ns[n])

KeyOf(name) == <<Quote, name, Quote, ":", " ">>

Written(f) ==
    CASE f.kind = "expr" -> KeyOf("a") \o Expression(f, Len(f.ns))
      [] f.kind = "negative" -> KeyOf("a") \o <<"-">> \o Expression(f, Len(f.ns))
      [] f.kind = "quoted" ->
           KeyOf("b") \o <<Quote>> \o Expression(f, Len(f.ns)) \o <<Quote>>
      [] f.kind = "date" ->
           KeyOf("k") \o <<Quote, "1", "1", "3", "y">> \o Expression(f, Len(f.ns))
             \o <<"m", Quote>>
      [] f.kind = "number" -> KeyOf("a") \o Decimal(f.ns[1])

Object(fields, written(_)) ==
    <<"{">> \o written(fields[1]) \o <<",", " ">> \o written(fields[2])
      \o <<",", " ">> \o written(fields[3]) \o <<"}">>

Response(fence, fields) ==
    CASE fence = "none" -> Object(fields, Written)
      [] fence = "json" -> FenceJson \o <<"\n">> \o Object(fields, Written)
                             \o <<"\n">> \o Fence
      [] fence = "plain" -> Fence \o <<"\n">> \o Object(fields, Written) \o <<"\n">> \o Fence

InitRepair ==
    /\ InitNoJob
    /\ \E fence \in {"none", "json", "plain"},
          n \in 2..MaxTerms,
          spacing \in {"none", "blank", "break"},
          before \in {"date", "quoted", "number"},
          kind \in {"expr", "negative"},
          after \in {"date", "quoted", "number"} :
         \E ns \in [1..n -> Numbers], ops \in [1..(n - 1) -> {"+", "-"}] :
           arg = [fence |-> fence,
                  fields |-> <<Field(before, <<11, 12>>, <<"-">>, "none"),
                               Field(kind, ns, ops, spacing),
                               Field(after, <<9, 10>>, <<"-">>, "blank")>>]
    /\ out = <<>>

CallRepair ==
    /\ out = <<>>
    /\ out' = <<Repair(Response(arg.fence, arg.fields))>>
    /\ UNCHANGED <<arg, pvars, jvars>>

NextRepair == CallRepair

SpecRepair == InitRepair /\ [][NextRepair]_vars

\* ------------------------------- a call of the withholding-summary totals
\* The records handed to the recomputation. The first record of a result
\* has its amounts in any of the ways a response may write them (1200 as a
\* number, as "1200", as "1,200"; blank; null; left out), a tax of 5 or
\* 10 per cent of 1200, totals reported right, wrong or not at all, and the
\* item name of the wage line or another; the records after it are of two
\* fixed kinds.
Missing == [kind |-> "missing", n |-> 0]

SummaryRecord(individual_payment, non_individual_payment, individual_tax,
              non_individual_tax, payment_total, tax_total, item) ==
    LET amounts == [k \in {"individual_payment", "non_individual_payment",
                           "individual_tax", "non_individual_tax",
                           "payment_total", "tax_total"} |->
                      CASE k = "individual_payment" -> individual_payment
                        [] k = "non_individual_payment" -> non_individual_payment
                        [] k = "individual_tax" -> individual_tax
                        [] k = "non_individual_tax" -> non_individual_tax
                        [] k = "payment_total" -> payment_total
                        [] k = "tax_total" -> tax_total]
    IN [k \in {a \in DOMAIN amounts : amounts[a] # Missing} \cup {"item"} |->
          IF k = "item" THEN item ELSE amounts[k]]

FurtherRecords ==
    {SummaryRecord(Num(1200), Num(1200), Num(60), Num(60), Num(2400), Num(120), "interest"),
     SummaryRecord(Str(1200), Missing, Numeral(60), Missing, Num(1200), Num(60), "salary")}

InitTotals ==
    /\ InitNoJob
    /\ \E g \in {"GROUP_B_SUMMARY_PAYMENT", "GROUP_B_SUMMARY_INCOME"},
          n \in 0..MaxRecords :
         \E a \in {Num(1200), Numeral(1200), Str(1200), Dash, None, Missing},
            b \in {Num(0), Num(1200), Missing},
            c \in {Num(0), Num(60), Numeral(120)},
            d \in {Num(0), Num(60)},
            t \in {Num(2400), Num(1), Missing},
            item \in {"salary", "interest"},
            rest \in [1..(IF n = 0 THEN 0 ELSE n - 1) -> FurtherRecords] :
           arg = [group |-> g,
                  result |-> IF n = 0 THEN [payer_name |-> "payer"]
                             ELSE [payer_name |-> "payer",
                                   records |-> <<SummaryRecord(a, b, c, d, t, t, item)>>
                                                 \o rest]]
    /\ out = <<>>

CallTotals ==
    /\ out = <<>>
    /\ out' = <<PostProcess(arg.group, arg.result)>>
    /\ UNCHANGED <<arg, pvars, jvars>>

NextTotals == CallTotals

SpecTotals == InitTotals /\ [][NextTotals]_vars

\* ------------------------------------------ extract_zero_tax_rate_amounts
\* An OCR text is the sequence of its characters, a Chinese character being
\* written by its reading ("fei", "jing", "hai", "guan" spell the label of
\* the sales that do not pass customs; "jing", "hai", "guan" the label of
\* those that do). Positions count from 0, as str.find and match.start()
\* count them, and -1 stands for "not found".
NonCustomsLabel == <<"fei", "jing", "hai", "guan">>
CustomsLabel == <<"jing", "hai", "guan">>
ExemptSales == <<"mian", "shui", "xiao", "shou", "e">>

Least(S) == CHOOSE x \in S : \A y \in S : x <= y
Greatest(S) == CHOOSE x \in S : \A y \in S : x >= y
abs(n) == IF n < 0 THEN 0 - n ELSE n

\* text[a:b]
Slice(text, a, b) == SubSeq(text, a + 1, Min(b, Len(text)))

\* text.find(part), looking from position from on
MatchesAt(text, part, p) ==
    p + Len(part) <= Len(text) /\ SubSeq(text, p + 1, p + Len(part)) = part

find(text, part, from) ==
    LET found == {p \in from..(Len(text) - Len(part)) : MatchesAt(text, part, p)}
    IN IF found = {} THEN -1 ELSE Least(found)

\* re.sub(r'\s+', ' ', ocr_text.strip())
collapse(text) ==
    LET marked == [k \in 1..Len(text) |->
                     [c |-> IF isspace(text[k]) THEN " " ELSE text[k],
                      first |-> k = 1 \/ ~isspace(text[k - 1])]]
        Kept(m) == m.c # " " \/ m.first
        kept == SelectSeq(marked, Kept)
    IN [k \in 1..Len(kept) |-> kept[k].c]

\* A match of re.search is its start and its end; NoMatch is None.
NoMatch == [start |-> -1, end |-> -1]

\* A pattern of literal pieces joined by ".*?": each piece is taken at its
\* first occurrence after the piece before it.
RECURSIVE ChainEnd(_, _, _)
ChainEnd(text, pieces, from) ==
    IF pieces = <<>> THEN from
    ELSE LET p == find(text, Head(pieces), from) IN
           IF p = -1 THEN -1
           ELSE ChainEnd(text, Tail(pieces), p + Len(Head(pieces)))

search_chain(text, pieces) ==
    LET p == find(text, Head(pieces), 0)
        q == IF p = -1 THEN -1
             ELSE ChainEnd(text, Tail(pieces), p + Len(Head(pieces)))
    IN IF q = -1 THEN NoMatch ELSE [start |-> p, end |-> q]

\* A pattern \bcode\b: digits, letters and Chinese characters are word
\* characters, blanks and commas are not.
isword(c) == c \notin {" ", ",", "\n"}

boundary(text, p) ==
    (p > 0 /\ isword(text[p])) # (p < Len(text) /\ isword(text[p + 1]))

search_code(text, code) ==
    LET found == {p \in 0..(Len(text) - Len(code)) :
                    /\ MatchesAt(text, code, p)
                    /\ boundary(text, p)
                    /\ boundary(text, p + Len(code))}
    IN IF found = {} THEN NoMatch
       ELSE [start |-> Least(found), end |-> Least(found) + Len(code)]

\* the end markers of lines 78, 90 and 102
Chain(pieces) == [bounded |-> FALSE, pieces |-> pieces]
Code(digits) == [bounded |-> TRUE, pieces |-> <<digits>>]

SectionMarkers ==
    <<Chain(<<<<"shui", "e">>, <<"ji", "suan">>>>),
      Chain(<<<<"xiao", "shou", "e">>, <<"zong">>, <<"ji">>>>),
      Chain(<<<<"dai", "hao">>, <<"xiang">>, <<"mu">>>>),
      Chain(<<<<"ben", "qi">>, <<"yue">>, <<"xiao", "xiang", "shui", "e">>>>)>>

EndMarkers ==
    SectionMarkers
      \o <<Code(<<"1", "9">>), Code(<<"2", "0">>), Code(<<"2", "3">>),
           Code(<<"2", "4">>)>>

search(marker, text) ==
    IF marker.bounded THEN search_code(text, marker.pieces[1])
    ELSE search_chain(text, marker.pieces)

\* the first marker of the list, in its order, that text holds
RECURSIVE FirstMarker(_, _)
FirstMarker(markers, text) ==
    IF markers = <<>> THEN NoMatch
    ELSE LET m == search(Head(markers), text) IN
           IF m # NoMatch THEN m ELSE FirstMarker(Tail(markers), text)

\* The pattern \d{1,3}(?:,\d{3})+|\d{4,} at p: the position after the
\* match, -1 if there is none.
IsDigitAt(text, p) == p < Len(text) /\ isdigit(text[p + 1])
DigitsAt(text, p, n) == \A k \in 0..(n - 1) : IsDigitAt(text, p + k)

RECURSIVE GroupsEnd(_, _)
GroupsEnd(text, p) ==
    IF p < Len(text) /\ text[p + 1] = "," /\ DigitsAt(text, p + 1, 3)
    THEN GroupsEnd(text, p + 4)
    ELSE p

RECURSIVE RunEnd(_, _)
RunEnd(text, p) == IF IsDigitAt(text, p) THEN RunEnd(text, p + 1) ELSE p

NumberEnd(text, p) ==
    LET heads == {n \in 1..3 : DigitsAt(text, p, n) /\ GroupsEnd(text, p + n) > p + n}
    IN IF heads # {} THEN GroupsEnd(text, p + Greatest(heads))
       ELSE IF DigitsAt(text, p, 4) THEN RunEnd(text, p)
       ELSE -1

\* clean_number(num_str)
clean_number(num_str) ==
    IF num_str = <<>> THEN 0
    ELSE int(replace(replace(num_str, <<",">>, <<>>), <<" ">>, <<>>))

\* re.finditer of the pattern, from p on: value, text and position of each
\* match
RECURSIVE finditer_number(_, _)
finditer_number(text, p) ==
    LET starts == {k \in p..(Len(text) - 1) : NumberEnd(text, k) # -1} IN
      IF starts = {} THEN <<>>
      ELSE LET s == Least(starts)
               q == NumberEnd(text, s)
           IN <<[value |-> clean_number(Slice(text, s, q)),
                 str |-> Slice(text, s, q),
                 pos |-> s]>>
                \o finditer_number(text, q)

\* lines 53-112: the section from the label on
direct_section(cleaned_text) ==
    LET non_customs_start == find(cleaned_text, NonCustomsLabel, 0)
        rest == Slice(cleaned_text, non_customs_start, Len(cleaned_text))
        code_16_match == search_code(rest, <<"1", "6">>)
        search_start == non_customs_start + code_16_match.end
        section_after_16 == Slice(cleaned_text, search_start, search_start + 100)
        first_large_num_match == finditer_number(section_after_16, 0)
        num_str == replace(first_large_num_match[1].str, <<",">>, <<>>)
        marker == FirstMarker(EndMarkers, section_after_16)
        by_marker == IF marker = NoMatch THEN search_start + 100
                     ELSE search_start + marker.start
        ends == {non_customs_start + search(SectionMarkers[k], rest).end :
                   k \in {n \in 1..Len(SectionMarkers) :
                            search(SectionMarkers[n], rest) # NoMatch}}
        end_pos ==
            IF code_16_match # NoMatch
            THEN IF first_large_num_match # <<>>
                 THEN IF Len(num_str) >= 4 \/ int(num_str) > 1000
                      THEN search_start + first_large_num_match[1].pos
                      ELSE by_marker
                 ELSE by_marker
            ELSE Least(ends \cup {Len(cleaned_text)})
    IN Slice(cleaned_text, non_customs_start, end_pos)

\* lines 115-127: group 1 of (pieces.*?)(?=marker|...|$)
MarkerAt(marker, text, q) ==
    /\ MatchesAt(text, Head(marker.pieces), q)
    /\ ChainEnd(text, Tail(marker.pieces), q + Len(Head(marker.pieces))) # -1

LookaheadFrom(text, q) ==
    Least({p \in q..(Len(text) - 1) :
             \E k \in 1..Len(SectionMarkers) : MarkerAt(SectionMarkers[k], text, p)}
            \cup {Len(text)})

zero_rate_patterns ==
    <<<<<<"ling">>, <<"shui", "lv">>, <<"xiao">>, <<"shou">>, <<"e">>,
        <<"mian", "shui">>, <<"xiao", "shou", "e">>>>,
      <<<<"mian", "shui">>, <<"xiao", "shou", "e">>>>,
      <<NonCustomsLabel, CustomsLabel>>>>

RECURSIVE pattern_section(_, _)
pattern_section(patterns, cleaned_text) ==
    IF patterns = <<>> THEN <<>>
    ELSE LET zero_rate_match == search_chain(cleaned_text, Head(patterns)) IN
           IF zero_rate_match # NoMatch
           THEN Slice(cleaned_text, zero_rate_match.start,
                      LookaheadFrom(cleaned_text, zero_rate_match.end))
           ELSE pattern_section(Tail(patterns), cleaned_text)

\* lines 44-127: the section, <<>> when none is found
zero_rate_section(ocr_text) ==
    LET cleaned_text == collapse(strip(ocr_text))
        direct == IF /\ find(cleaned_text, NonCustomsLabel, 0) # -1
                     /\ find(cleaned_text, CustomsLabel, 0) # -1
                  THEN direct_section(cleaned_text)
                  ELSE <<>>
    IN IF direct # <<>> THEN direct
       ELSE pattern_section(zero_rate_patterns, cleaned_text)

\* lines 140-149: the numbers of the section above the threshold
AboveThreshold(n) == n.value > 30
all_large_numbers(section) == SelectSeq(finditer_number(section, 0), AboveThreshold)

\* the numbers whose value was not seen before, in their order
RECURSIVE Distinct(_, _)
Distinct(numbers, seen) ==
    IF numbers = <<>> THEN <<>>
    ELSE IF Head(numbers).value \in seen THEN Distinct(Tail(numbers), seen)
    ELSE <<Head(numbers)>> \o Distinct(Tail(numbers), seen \cup {Head(numbers).value})

\* what the function returns: (None, None) or the two amounts
NoAmounts == [section |-> FALSE, non_customs_amount |-> 0, customs_amount |-> 0]
Pair(non_customs_amount, customs_amount) ==
    [section |-> TRUE, non_customs_amount |-> non_customs_amount,
     customs_amount |-> customs_amount]

\* lines 166-189: one number
one_number(section, num) ==
    LET non_customs_text_pos == find(section, NonCustomsLabel, 0)
        customs_text_pos == find(section, CustomsLabel, 0)
        dist_to_non_customs == abs(num.pos - non_customs_text_pos)
        dist_to_customs == abs(num.pos - customs_text_pos)
    IN IF non_customs_text_pos # -1 /\ customs_text_pos # -1
       THEN IF dist_to_non_customs < dist_to_customs
            THEN Pair(num.value, 0)
            ELSE Pair(0, num.value)
       ELSE IF customs_text_pos # -1 THEN Pair(0, num.value)
       ELSE Pair(num.value, 0)

\* lines 215-267: several numbers of one value
one_value(section, numbers) ==
    LET num_value == numbers[1].value
        first_occurrence_pos == numbers[1].pos
        head == Slice(section, 0, first_occurrence_pos + 50)
        non_customs_desc_end ==
            search_chain(head, <<NonCustomsLabel, <<"chu", "kou">>,
                                 <<"ying", "fu", "zheng", "ming", "wen", "jian", "zhe">>>>).end
        customs_desc_end ==
            search_chain(head, <<CustomsLabel, <<"chu", "kou">>,
                                 <<"mian", "fu", "zheng", "ming", "wen", "jian", "zhe">>>>).end
        code_8_pos == search_code(section, <<"8">>).start
        code_16_pos == search_code(section, <<"1", "6">>).start
    IN IF customs_desc_end # -1 /\ abs(first_occurrence_pos - customs_desc_end) < 50
       THEN Pair(0, num_value)
       ELSE IF /\ non_customs_desc_end # -1
               /\ abs(first_occurrence_pos - non_customs_desc_end) < 50
       THEN Pair(num_value, 0)
       ELSE IF code_8_pos # -1 /\ code_16_pos # -1
       THEN IF first_occurrence_pos > code_8_pos
            THEN Pair(0, num_value)
            ELSE Pair(num_value, 0)
       ELSE Pair(0, num_value)

\* lines 270-328: several numbers of several values
FirstTwo(numbers) ==
    LET unique_numbers == Distinct(numbers, {}) IN
      Pair(unique_numbers[1].value,
           IF Len(unique_numbers) > 1 THEN unique_numbers[2].value ELSE 0)

several_values(section, numbers) ==
    LET customs_text_pos == find(section, CustomsLabel, 0)
        IsBefore(n) == n.pos < customs_text_pos
        IsAfter(n) == n.pos >= customs_text_pos
        before_customs == SelectSeq(numbers, IsBefore)
        after_customs_unique == Distinct(SelectSeq(numbers, IsAfter), {})
    IN IF customs_text_pos # -1
       THEN IF Len(after_customs_unique) >= 2
            THEN Pair(after_customs_unique[1].value, after_customs_unique[2].value)
            ELSE IF Len(after_customs_unique) = 1 /\ Len(before_customs) >= 1
            THEN Pair(before_customs[1].value, after_customs_unique[1].value)
            ELSE IF Len(after_customs_unique) = 1
            THEN Pair(0, after_customs_unique[1].value)
            ELSE FirstTwo(numbers)
       ELSE FirstTwo(numbers)

\* lines 151-328: the amounts, from the section and its numbers
amounts_of(section, numbers) ==
    IF section = <<>> THEN NoAmounts
    ELSE IF Len(numbers) = 0 THEN Pair(0, 0)
    ELSE IF Len(numbers) = 1 THEN one_number(section, numbers[1])
    ELSE IF Cardinality({numbers[k].value : k \in 1..Len(numbers)}) = 1
    THEN one_value(section, numbers)
    ELSE several_values(section, numbers)

amounts_in(section) == amounts_of(section, all_large_numbers(section))

extract_zero_tax_rate_amounts(ocr_text) == amounts_in(zero_rate_section(ocr_text))

\* --------------------------------- a call of extract_zero_tax_rate_amounts
\* The OCR texts handed to the function: a first label (the one of the sales
\* that do not pass customs, the exempt sales, or none), a number, the line
\* code 8, up to MaxGap characters of other text, the label of the sales
\* that pass customs, a number, the line code 16 and what follows the
\* section (a number or the heading of the tax computation), each present
\* or not, separated by blanks.
Filler(n) == [k \in 1..n |-> "x"]

RECURSIVE Join(_)
Join(parts) ==
    IF parts = <<>> THEN <<>>
    ELSE IF Head(parts) = <<>> THEN Join(Tail(parts))
    ELSE Head(parts) \o <<" ">> \o Join(Tail(parts))

InitExtract ==
    /\ InitNoJob
    /\ \E label1 \in {NonCustomsLabel, ExemptSales, <<>>},
          num1 \in {<<>>, <<"1", "2", ",", "3", "4", "5">>, <<"5", "0", "0", "0">>,
                    <<"5", "0", "0">>, <<"0", ",", "0", "3", "0">>},
          code8 \in {<<>>, <<"8">>},
          gap \in {0, 8, MaxGap},
          label2 \in {CustomsLabel, <<>>},
          num2 \in {<<>>, <<"1", "2", ",", "3", "4", "5">>, <<"7", "0", "0", "0">>},
          code16 \in {<<>>, <<"1", "6">>},
          after \in {<<>>, <<"9", "0", "0", "0">>, <<"shui", "e", "ji", "suan">>} :
         arg = [ocr_text |-> Join(<<label1, num1, code8, Filler(gap), label2, num2,
                                    code16, after>>)]
    /\ out = <<>>

CallExtract ==
    /\ out = <<>>
    /\ out' = <<extract_zero_tax_rate_amounts(arg.ocr_text)>>
    /\ UNCHANGED <<arg, pvars, jvars>>

NextExtract == CallExtract

SpecExtract == InitExtract /\ [][NextExtract]_vars

\* ------------------------------------------- the pipeline with no worker lost
\* No worker was ever lost: every row in PROCESSING is held by a task that
\* is running. The newest rows are fresh uploads, the last one with
\* uploaded_by NULL; the older rows are jobs of uploader 1.
\*   table 1: the older rows have completed; the uploads are one of
\*            uploader 1 and one of uploader 2;
\*   table 2: MAX_JOBS_PER_USER older rows are being processed by the
\*            workers of a pool that is shutting down (a warm shutdown: a
\*            worker ends the task it runs and takes no other); the uploads
\*            is one of uploader 1.
Uploads == {j \in Jobs : j > NJobs - 3}
Uploaded(t) == IF t = 1 THEN Uploads ELSE Uploads \ {NJobs - 2}
RunningElsewhere(t) ==
    IF t = 1 THEN {} ELSE {j \in Jobs \ Uploads : j > NJobs - 3 - MAX_JOBS_PER_USER}

UploadedRow(t, j) ==
    [uploaded_by |-> IF j = NJobs THEN NoUser
                     ELSE IF t = 1 /\ j = NJobs - 1 THEN 2 ELSE 1,
     status |-> IF j \in Uploaded(t) THEN "PENDING"
                ELSE IF j \in RunningElsewhere(t) THEN "PROCESSING"
                ELSE "COMPLETED",
     age |-> 0,
     result_json |-> IF j \in Uploaded(t) \cup RunningElsewhere(t) THEN NULL
                     ELSE "final_result",
     detected_stream |-> IF j \in Uploaded(t) \cup RunningElsewhere(t) THEN NULL
                         ELSE "detected_stream",
     detected_company_name |-> IF j \in Uploaded(t) \cup RunningElsewhere(t) THEN NULL
                               ELSE "detected_company_name",
     error_message |-> NULL]

InitLive ==
    /\ \E t \in Tables : jobs = [j \in Jobs |-> UploadedRow(t, j)]
    /\ msgs = [j \in Jobs |-> 0]
    /\ pc = [w \in Workers |-> "idle"]
    /\ wjob = [w \in Workers |-> 0]
    /\ requeued = [w \in Workers |-> FALSE]
    /\ ret = [w \in Workers |-> "none"]
    /\ dpc = "idle"
    /\ dusers = {}
    /\ duser = NoUser
    /\ dcount = 0
    /\ lost = 0
    /\ NoInvocation
    /\ NoCall

\* A task of the pool that is shutting down saves its result (the rows it
\* holds differ by id only, which no query of the dispatcher reads for a
\* row in PROCESSING: they are taken in id order).
SaveElsewhere(j) ==
    /\ j \notin Uploads
    /\ jobs[j].status = "PROCESSING"
    /\ \A k \in Jobs \ Uploads : k < j => jobs[k].status # "PROCESSING"
    /\ jobs' = [jobs EXCEPT ![j] =
                  [uploaded_by |-> @.uploaded_by,
                   status |-> "COMPLETED",
                   age |-> 0,
                   result_json |-> "final_result",
                   detected_stream |-> "detected_stream",
                   detected_company_name |-> "detected_company_name",
                   error_message |-> NULL]]
    /\ UNCHANGED <<msgs, wvars, dvars, lost>>
    /\ UNCHANGED <<jvars, fvars>>

NextLive ==
    \/ \E w \in Workers, j \in Jobs : Start(w, j)
    \/ \E w \in Workers : Claim(w)
    \/ \E w \in Workers : Save(w)
    \/ \E w \in Workers : Fail(w)
    \/ \E w \in Workers : Ack(w)
    \/ \E j \in Jobs : SaveElsewhere(j)
    \/ Scan
    \/ \E u \in Users \cup {NoUser} : Count(u)
    \/ Select

\* The beat schedule keeps starting cycles and a cycle runs to its end
\* (celery_app.py:36-45); a task that has started runs to its return, every
\* call of the page loop returning or raising; the broker hands a queued
\* message to a worker that stays free.
FairLive ==
    /\ WF_vars(Scan)
    /\ \A u \in Users : WF_vars(Count(u))
    /\ WF_vars(Select)
    /\ \A w \in Workers :
         /\ WF_vars(Claim(w))
         /\ WF_vars(Save(w) \/ Fail(w))
         /\ WF_vars(Ack(w))
    /\ WF_vars(\E j \in Jobs : SaveElsewhere(j))
    /\ \A j \in Uploads : WF_vars(\E w \in Workers : Start(w, j))

SpecLive == InitLive /\ [][NextLive]_vars /\ FairLive

TypeOK ==
    /\ \A j \in Jobs : jobs[j].status \in {"PENDING", "PROCESSING", "COMPLETED", "FAILED"}
    /\ \A j \in Jobs : jobs[j].age \in 0..MaxAge
    /\ \A j \in Jobs : msgs[j] \in 0..MaxMsgs
    /\ \A w \in Workers : pc[w] \in {"idle", "requeue", "claim", "run", "done"}
    /\ dpc \in {"idle", "loop", "select"}

\* ------------------------------------------------------------ properties
\* A step in which worker w starts process_job on job j: the load of the row
\* and the entry checks.
Entered(w, j) == pc[w] = "idle" /\ pc'[w] # "idle" /\ wjob'[w] = j

\* A step of the dispatcher.
DispatchStep == dpc' # dpc \/ dusers' # dusers

\* C1: a job never regresses from COMPLETED: once its status is COMPLETED no
\* step of process_job or of the dispatcher changes the status.
C1_NeverRegressesFromCompleted ==
    [][\A j \in Jobs :
         jobs[j].status = "COMPLETED" => jobs'[j].status = "COMPLETED"]_vars

\* C2: every change of a job's status is PENDING->PROCESSING,
\* PROCESSING->COMPLETED, PROCESSING->FAILED, or PROCESSING->PENDING of a
\* job that is stale.
LegalTransition(old, new) ==
    \/ old.status = "PENDING" /\ new.status = "PROCESSING"
    \/ old.status = "PROCESSING" /\ new.status \in {"COMPLETED", "FAILED"}
    \/ /\ old.status = "PROCESSING" /\ new.status = "PENDING"
       /\ old.age * TickMinutes > STALE_MINUTES

C2_OnlyLegalTransitions ==
    [][\A j \in Jobs :
         jobs'[j].status # jobs[j].status => LegalTransition(jobs[j], jobs'[j])]_vars

\* C3: in every reachable state every uploader has at most
\* MAX_JOBS_PER_USER (8) jobs in PROCESSING.
C3_AtMostNProcessing ==
    \A u \in Users : Cardinality(ProcessingOf(u)) <= MAX_JOBS_PER_USER

\* C4: entry to FAILED is permanent: once a job's status is FAILED no step
\* moves it out of FAILED (and so no worker runs the page loop on it again).
C4_FailedIsPermanent ==
    [][\A j \in Jobs :
         jobs[j].status = "FAILED" => jobs'[j].status = "FAILED"]_vars

\* C5: process_job entered on a job that is COMPLETED, or PROCESSING and
\* updated no more than STALE_MINUTES ago, changes no field of any job row,
\* does not reach the page loop and returns "already_completed" /
\* "already_processing" respectively, every time.
C5_IdempotentEntry ==
    [][\A w \in Workers, j \in Jobs :
         Entered(w, j) =>
           /\ jobs[j].status = "COMPLETED" =>
                jobs' = jobs /\ pc'[w] = "done" /\ ret'[w] = "already_completed"
           /\ (jobs[j].status = "PROCESSING"
                 /\ jobs[j].age * TickMinutes <= STALE_MINUTES) =>
                jobs' = jobs /\ pc'[w] = "done" /\ ret'[w] = "already_processing"]_vars

\* C5 witness: one task has returned "already_completed" on a COMPLETED job
\* while another has returned "already_processing" on a PROCESSING job.
C5_Witness ==
    \E w, v \in Workers :
      /\ pc[w] = "done" /\ ret[w] = "already_completed"
      /\ jobs[wjob[w]].status = "COMPLETED"
      /\ pc[v] = "done" /\ ret[v] = "already_processing"
      /\ jobs[wjob[v]].status = "PROCESSING"

\* C6: at most one logical owner: of the process_job invocations for one
\* job, at most one is past the status check and in the page loop.
C6_AtMostOneOwner ==
    \A j \in Jobs : Cardinality({w \in Workers : wjob[w] = j /\ pc[w] = "run"}) <= 1

\* C7 (as claimed): a stale PROCESSING job is moved back to PENDING by the
\* next dispatch cycle that observes it (the processing_count query of its
\* uploader) and by the next process_job attempt that observes it; a job
\* that is not stale is left untouched by both.
C7_StaleRecoveryByDispatchToo ==
    [][/\ \A u \in Users, j \in Jobs :
            (dpc = "loop" /\ u \in dusers /\ (u \notin dusers' \/ duser' = u)
               /\ jobs[j].uploaded_by = u /\ jobs[j].status = "PROCESSING"
               /\ jobs[j].age * TickMinutes > STALE_MINUTES)
            => jobs'[j].status = "PENDING"
       /\ \A w \in Workers :
            pc[w] = "requeue" /\ pc'[w] # "requeue" => jobs'[wjob[w]].status = "PENDING"]_vars

\* C7 (amended): a process_job attempt that observes a PROCESSING job
\* updated more than STALE_MINUTES ago takes the stale branch and its next
\* statement moves the job back to PENDING; an attempt that observes a
\* PROCESSING job updated no more than STALE_MINUTES ago (10 minutes, say)
\* leaves it untouched and returns; a dispatch cycle changes no job row,
\* stale or not.
C7_StaleRecovery ==
    [][/\ \A w \in Workers, j \in Jobs :
            Entered(w, j) /\ jobs[j].status = "PROCESSING" =>
              IF jobs[j].age * TickMinutes > STALE_MINUTES
              THEN pc'[w] = "requeue"
              ELSE pc'[w] = "done" /\ jobs' = jobs
       /\ \A w \in Workers :
            pc[w] = "requeue" /\ pc'[w] # "requeue" =>
              /\ jobs'[wjob[w]].status = "PENDING"
              /\ requeued'[w]
       /\ DispatchStep => jobs' = jobs]_vars

\* C7 witness: a task has observed a stale job, has moved it back to PENDING
\* and is about to claim it.
C7_Witness ==
    \E w \in Workers :
      /\ requeued[w] /\ pc[w] = "claim"
      /\ jobs[wjob[w]].status = "PENDING"

\* C8: stale requeue happens once per detection: of the process_job
\* invocations that observed one stale job, at most one takes the stale
\* branch and takes the job over.
C8_RequeueOnce ==
    \A j \in Jobs :
      Cardinality({w \in Workers :
                     wjob[w] = j /\ (pc[w] = "requeue" \/ requeued[w])}) <= 1

\* C9: a worker that saves while the job is no longer in PROCESSING leaves
\* the row as it is (it discards its result).
C9_DiscardsLateResult ==
    [][\A w \in Workers :
         (pc[w] = "run" /\ pc'[w] = "done" /\ ret'[w] = "success"
            /\ jobs[wjob[w]].status # "PROCESSING")
         => jobs'[wjob[w]] = jobs[wjob[w]]]_vars

\* C10: a loop iteration of a dispatch cycle for an uploader with p jobs in
\* PROCESSING at its processing_count query and q jobs PENDING at its
\* next_jobs query submits exactly min(q, max(0, N - p)) messages, all for
\* that uploader's jobs; when p >= N it submits none.
Submitted(u) ==
    Queued([j \in Jobs |-> IF jobs[j].uploaded_by = u THEN msgs'[j] - msgs[j] ELSE 0],
           NJobs)

Earlier(j, k) ==
    \/ created_at(j) < created_at(k)
    \/ created_at(j) = created_at(k) /\ j < k

TableUntouched == \E t \in Tables : jobs = [j \in Jobs |-> InitRow(t, j)]

C12_DispatchIdempotent ==
    [][(dpc = "select" /\ dpc' # "select") =>
         \A j \in Jobs :
           (msgs[j] > 0 /\ lost = 0 /\ TableUntouched) => msgs'[j] = msgs[j]]_vars

\* C16: in every reachable state a job's error_message is non-null only if
\* the job's status is FAILED.
C16_ErrorOnlyOnFailed ==
    \A j \in Jobs : jobs[j].error_message # NULL => jobs[j].status = "FAILED"

ConfigurationError ==
    /\ inp.file # "missing"
    /\ inp.file = "unsupported" \/ job.document_type \notin DOMAIN PROMPT_TYPE_MAPPING

C14_ConfigurationErrorsAreFatal ==
    (jpc # "none" /\ ConfigurationError) =>
      /\ ocr_calls = 0 /\ llm_calls = 0
      /\ jpc \in {"claim", "checks", "except", "done"}
      /\ jpc = "done" =>
           /\ job.status = "FAILED" /\ jret = "failed"
           /\ job.error_message =
                IF inp.file = "unsupported"
                THEN Msg("unsupported file format", NULL)
                ELSE Msg("unknown document_type", NULL)
           /\ \A j \in Jobs : msgs[j] = 0

\* C14 witness: the task has returned on a job with a supported file and an
\* unmapped document_type.
C14_Witness ==
    /\ jpc = "done"
    /\ inp.file = "image" /\ job.document_type = "unknown"
    /\ job.status = "FAILED" /\ ocr_calls = 0 /\ llm_calls = 0

\* C15: temporary page images are released on every exit path: when the
\* next page is started no image of an earlier page is on disk, and when
\* process_job has returned no image created for the job is on disk.
C15_TempImagesReleased ==
    /\ jpc = "ocr" => disk \ {0} = {}
    /\ jpc = "done" => disk \ {0} = {}

\* C17: validation findings never block completion: when the response of
\* the model for a page of a sales return (401, 403) parses, directly or
\* after the repair, into a return whose identities fail in any combination,
\* the attempt returns it with exactly the tags of the failing identities
\* in warnings, without raising and without another attempt; and the save
\* of the job sets COMPLETED with these page objects as the result.
Figure(result, key) == result[key].n

FailingIdentities(result) ==
    (IF Figure(result, "triple_invoice") + Figure(result, "register_tape")
          + Figure(result, "two_form") # Figure(result, "taxable_total")
     THEN <<"taxable">> ELSE <<>>)
    \o (IF Figure(result, "zero_customs") # Figure(result, "zero_total")
        THEN <<"zero_rate">> ELSE <<>>)
    \o (IF Figure(result, "triple_invoice") + Figure(result, "register_tape")
             + Figure(result, "two_form") + Figure(result, "zero_customs")
             # Figure(result, "grand_total")
        THEN <<"total">> ELSE <<>>)

SalesReturnJob == jpc # "none" /\ job.document_type \in {"401", "403"}

C17_FindingsNeverBlock ==
    [][SalesReturnJob =>
         /\ (jpc = "parse" /\ raw.text # "garbage" /\ raw.value \in Reports) =>
              /\ jpc' = "returned"
              /\ page_result'["warnings"] = FailingIdentities(raw.value)
              /\ i' = i /\ llm_calls' = llm_calls /\ exc' = exc
         /\ jpc = "save" =>
              /\ job'.status = "COMPLETED" /\ jret' = "success"
              /\ job'.result_json =
                   IF total_pages = 1 THEN all_pages_results[1]
                   ELSE [pages |-> all_pages_results]
              /\ \A n \in 1..Len(all_pages_results) :
                   all_pages_results[n]["warnings"] = FailingIdentities(all_pages_results[n])]_vars

\* C17 witness: a one-page 401 job is COMPLETED after a single model call
\* with all three tags in the warnings of its result.
C17_Witness ==
    /\ jpc = "done" /\ job.document_type = "401"
    /\ job.status = "COMPLETED" /\ llm_calls = 1
    /\ job.result_json["warnings"] = <<"taxable", "zero_rate", "total">>

\* Parts of C18 that the claim and its amended form share: the model is
\* called at most retry_count times; an attempt whose call raises or whose
\* response is rejected by json.loads both times moves the loop to the next
\* attempt; when the loop is over, the RuntimeError that is raised quotes
\* the error of the last attempt.
CallsBounded == llm_calls' <= inp.retry_count

FailuresCount ==
    /\ (jpc = "llm" /\ llm_calls' = llm_calls + 1 /\ jpc' = "llm") =>
         i' = i + 1 /\ last_err'.type = "APIError"
    /\ (jpc = "parse" /\ raw.text = "garbage") =>
         i' = i + 1 /\ jpc' = "llm" /\ last_err'.type = "RuntimeError"

LastErrorSurfaces ==
    (jpc = "llm" /\ jpc' = "except") =>
      /\ llm_calls = inp.retry_count
      /\ exc'.type = "RuntimeError"
      /\ exc'.text = "LLM extraction failed" /\ exc'.cause = last_err.text

Group == PROMPT_TYPE_MAPPING[job.document_type]

CollectedTags ==
    LET r == arg.llm_result
        tag(x) == IF "shape" \notin DOMAIN x /\ "stream" \in DOMAIN x THEN x["stream"] ELSE ""
        all == IF "shape" \in DOMAIN r THEN <<>>
               ELSE IF "pages" \in DOMAIN r
                    THEN [n \in 1..Len(r["pages"]) |-> tag(r["pages"][n])]
                    ELSE <<tag(r)>>
    IN SelectSeq(all, LAMBDA t : t # "")

Returned == out # <<>>

C19_DetectedStream ==
    ("llm_result" \in DOMAIN arg /\ Returned) =>
      LET tags == CollectedTags
          count(v) == Cardinality({n \in 1..Len(tags) : tags[n] = v})
          first(v) == CHOOSE n \in 1..Len(tags) :
                        tags[n] = v /\ \A m \in 1..Len(tags) : tags[m] = v => n <= m
      IN IF arg.document_type \in {"401", "403"} \/ tags = <<>>
         THEN out[1] = NULL
         ELSE /\ \E n \in 1..Len(tags) : tags[n] = out[1]
              /\ \A n \in 1..Len(tags) :
                   \/ count(out[1]) > count(tags[n])
                   \/ count(out[1]) = count(tags[n]) /\ first(out[1]) <= first(tags[n])
              /\ (\A n \in 1..Len(tags) : tags[n] = tags[1]) => out[1] = tags[1]
              /\ tags = <<"income", "income", "expense">> => out[1] = "income"
              /\ tags = <<"income", "expense">> => out[1] = "income"

\* C19 witness: a result of three pages whose second page has no tag and
\* whose other pages disagree: expense, then income; the result is expense.
C19_Witness ==
    /\ "llm_result" \in DOMAIN arg /\ Returned
    /\ arg.document_type = "withholding-slip"
    /\ "pages" \in DOMAIN arg.llm_result
    /\ CollectedTags = <<"expense", "income">>
    /\ Len(arg.llm_result["pages"]) = 3
    /\ out[1] = "expense"

\* C20: the three control checks are evaluated independently: after the
\* post-processing of a sales return, warnings holds the tag of an identity
\* if and only if the total computed from the constituent amounts (a
\* missing, null, blank or unreadable amount counting as 0) differs from the
\* total the model reported, whatever the other two checks find; each tag
\* occurs at most once, and warnings is the empty list exactly when all
\* three totals match.
Amount(result, key) ==
    IF key \notin DOMAIN result THEN 0
    ELSE IF result[key].kind \in {"int", "str"} THEN result[key].n ELSE 0

TaxableDiffers(result) ==
    Amount(result, "triple_invoice") + Amount(result, "register_tape")
      + Amount(result, "two_form") - Amount(result, "sales_returns")
      # Amount(result, "taxable_total")

ZeroRateDiffers(result) ==
    Amount(result, "zero_non_customs") + Amount(result, "zero_customs")
      - Amount(result, "zero_returns")
      # Amount(result, "zero_total")

GrandDiffers(form, result) ==
    Amount(result, "triple_invoice") + Amount(result, "register_tape")
      + Amount(result, "two_form")
      + Amount(result, "zero_customs") + Amount(result, "zero_non_customs")
      + Amount(result, "exempt")
      + (IF form = "401" THEN Amount(result, "special_total")
         ELSE Amount(result, "special-total"))
      + Amount(result, "other")
      - Amount(result, "sales_returns") - Amount(result, "zero_returns")
      # Amount(result, "grand_total")

C20_ChecksIndependent ==
    ("form" \in DOMAIN arg /\ Returned) =>
      LET warnings == out[1]["warnings"]
          has(tag) == \E n \in 1..Len(warnings) : warnings[n] = tag
          differ == {t \in {"taxable", "zero_rate", "total"} :
                       \/ t = "taxable" /\ TaxableDiffers(arg.result)
                       \/ t = "zero_rate" /\ ZeroRateDiffers(arg.result)
                       \/ t = "total" /\ GrandDiffers(arg.form, arg.result)}
      IN /\ has("taxable") <=> TaxableDiffers(arg.result)
         /\ has("zero_rate") <=> ZeroRateDiffers(arg.result)
         /\ has("total") <=> GrandDiffers(arg.form, arg.result)
         /\ Len(warnings) = Cardinality(differ)
         /\ warnings = <<>> <=> differ = {}

\* C20 witness: a 403 return whose taxable total and grand total are as
\* computed and whose zero-rate total is not; warnings holds that one tag.
C20_Witness ==
    /\ "form" \in DOMAIN arg /\ Returned
    /\ arg.form = "403"
    /\ ~TaxableDiffers(arg.result) /\ ~GrandDiffers(arg.form, arg.result)
    /\ Amount(arg.result, "special-returns") = 1
    /\ out[1]["warnings"] = <<"zero_rate">>

\* C21: reconciliation is idempotent: post_process_401_taxable_amounts or
\* post_process_403_taxable_amounts run a second time, on the dict the first
\* run returned, yields the same warnings list and the same derived
\* triple-form total as the first run (and the same dict altogether), for
\* every input result.
CalledTwice == "form" \in DOMAIN arg /\ Len(out) = 2

C21_ReconciliationIdempotent ==
    CalledTwice =>
      /\ out[2] = out[1]
      /\ out[2]["warnings"] = out[1]["warnings"]
      /\ out[2]["triple_form"] = out[1]["triple_form"]

\* C21 witness: a return with register-tape invoices whose response carried
\* a triple-form total and a warnings list of its own; both runs replace
\* them by the same total and the same non-empty list.
C21_Witness ==
    /\ CalledTwice
    /\ Amount(arg.result, "register_tape") > 0
    /\ "triple_form" \in DOMAIN arg.result
    /\ out[1]["triple_form"] # arg.result["triple_form"]
    /\ out[1]["warnings"] # arg.result["warnings"]
    /\ out[2]["warnings"] = <<"taxable", "zero_rate", "total">>

\* C22: when the response does not parse, every bare expression of decimal
\* integers joined by + or - in it is replaced by its integer value (as
\* left-to-right accumulation gives it: 93116159 + 4922 becomes 93121081)
\* before the parse is tried again, and the fiscal-period field is left
\* exactly as the model wrote it.
RECURSIVE ValueOf(_, _)
ValueOf(f, n) ==
    IF n = 1 THEN (IF f.kind = "negative" THEN 0 - f.ns[1] ELSE f.ns[1])
    ELSE IF f.ops[n - 1] = "+" THEN ValueOf(f, n - 1) + f.ns[n]
         ELSE ValueOf(f, n - 1) - f.ns[n]

Evaluated(f) ==
    CASE f.kind \in {"expr", "negative"} -> KeyOf("a") \o Decimal(ValueOf(f, Len(f.ns)))
      [] f.kind = "quoted" ->
           KeyOf("b") \o <<Quote>> \o Decimal(ValueOf(f, Len(f.ns))) \o <<Quote>>
      [] OTHER -> Written(f)

C22_ExpressionsEvaluated ==
    ("fence" \in DOMAIN arg /\ Returned) =>
      /\ out[1] = Object(arg.fields, Evaluated)
      /\ findall_date(out[1], 1) = findall_date(Object(arg.fields, Written), 1)

\* C23: for every record of a withholding-summary result the generative
\* client returns, the payment total equals the individual plus the
\* non-individual payment total and the withheld-tax total equals the
\* individual plus the non-individual withheld tax (a component that is
\* missing or blank counting as 0), whatever totals the model reported.
Component(record, key) ==
    IF key \notin DOMAIN record THEN 0
    ELSE IF record[key].kind \in {"int", "numeral", "str"} THEN record[key].n
    ELSE 0

C23_TotalsRecomputed ==
    ("group" \in DOMAIN arg /\ Returned /\ "records" \in DOMAIN arg.result) =>
      \A n \in 1..Len(arg.result["records"]) :
        LET given == arg.result["records"][n]
            record == out[1]["records"][n]
        IN /\ record["payment_total"] =
                Num(Component(given, "individual_payment")
                      + Component(given, "non_individual_payment"))
           /\ record["tax_total"] =
                Num(Component(given, "individual_tax")
                      + Component(given, "non_individual_tax"))

\* C24: exceeding the hard time limit fails the job: when the worker that
\* runs the page loop of a job is stopped by the hard limit (the task ends
\* without returning and its message is not put back), the job is FAILED
\* with an error message and is not left in PROCESSING.
StoppedByTimeLimit(w) == pc[w] = "run" /\ pc'[w] = "idle" /\ msgs' = msgs

C24_HardLimitFailsJob ==
    [][\A w \in Workers :
         StoppedByTimeLimit(w) =>
           /\ jobs'[wjob[w]].status = "FAILED"
           /\ jobs'[wjob[w]].error_message # NULL]_vars

\* C25: post_process_401_taxable_amounts and post_process_403_taxable_amounts
\* leave every field of the result they are given as it was, except the
\* derived triple-form total (set to three-part invoices + register-tape
\* invoices), warnings and warnings_acknowledged, and they set
\* warnings_acknowledged to false, never to true.
Derived == {"triple_form", "warnings", "warnings_acknowledged"}

FrameKept(given, returned) ==
    /\ DOMAIN returned = DOMAIN given \cup Derived
    /\ \A k \in DOMAIN given \ Derived : returned[k] = given[k]
    /\ returned["triple_form"] = Num(TripleTotal(given))
    /\ returned["warnings_acknowledged"] = FALSE

C25_SourceFieldsKept ==
    "form" \in DOMAIN arg =>
      /\ Len(out) >= 1 => FrameKept(arg.result, out[1])
      /\ Len(out) = 2 => FrameKept(out[1], out[2])

\* C25 witness: a return whose reported taxable total differs from the
\* computed one and whose response carried warnings_acknowledged true; the
\* check is recorded as a warning, the reported total stays and the flag is
\* false.
C25_Witness ==
    /\ "form" \in DOMAIN arg
    /\ Len(out) = 1
    /\ "warnings_acknowledged" \in DOMAIN arg.result
    /\ arg.result["warnings_acknowledged"] = TRUE
    /\ "taxable_total" \in DOMAIN arg.result
    /\ out[1]["warnings"] # <<>>
    /\ Head(out[1]["warnings"]) = "taxable"
    /\ out[1]["taxable_total"] = arg.result["taxable_total"]
    /\ out[1]["taxable_total"] # Num(TaxableComputed(arg.result))
    /\ out[1]["warnings_acknowledged"] = FALSE

\* C26: when the zero-rate section of the OCR text holds no number above
\* the threshold, both amounts are 0; when it holds exactly one, that number
\* goes to the label it is nearer to (the label of the sales that do not
\* pass customs, or the label of those that do, which stands on its own and
\* is not the tail of the first) and the other amount is 0.
LabelAt(section, p) ==
    IF p > 0 /\ MatchesAt(section, NonCustomsLabel, p - 1) THEN "none"
    ELSE IF MatchesAt(section, NonCustomsLabel, p) THEN "non_customs"
    ELSE IF MatchesAt(section, CustomsLabel, p) THEN "customs"
    ELSE "none"

Distance(section, label, pos) ==
    Least({abs(pos - p) : p \in {q \in 0..Len(section) : LabelAt(section, q) = label}})

HasLabel(section, label) == \E p \in 0..Len(section) : LabelAt(section, p) = label

C26_NearestLabel ==
    ("ocr_text" \in DOMAIN arg /\ Returned /\ out[1].section) =>
      LET section == zero_rate_section(arg.ocr_text)
          numbers == all_large_numbers(section)
      IN /\ Len(numbers) = 0 => out[1] = Pair(0, 0)
         /\ ( /\ Len(numbers) = 1
              /\ HasLabel(section, "non_customs")
              /\ HasLabel(section, "customs") ) =>
              LET num == numbers[1]
                  to_non_customs == Distance(section, "non_customs", num.pos)
                  to_customs == Distance(section, "customs", num.pos)
              IN /\ to_non_customs < to_customs => out[1] = Pair(num.value, 0)
                 /\ to_customs < to_non_customs => out[1] = Pair(0, num.value)

\* C27: when no worker is lost, dispatch cycles keep running, workers are
\* handed the queued messages fairly and every task runs to its return,
\* every PENDING job with an uploader eventually is COMPLETED or FAILED.
C27_EveryUploadIsProcessed ==
    \A j \in Uploads :
      (jobs[j].status = "PENDING" /\ jobs[j].uploaded_by # NoUser)
        ~> (jobs[j].status \in {"COMPLETED", "FAILED"})

\* C27 witness: uploader 1 had MAX_JOBS_PER_USER rows in PROCESSING and an
\* upload waiting; one of the running tasks has ended and the upload has
\* been dispatched, processed and COMPLETED while the other rows are still
\* in PROCESSING.
C27_Witness ==
    /\ Cardinality(ProcessingOf(1)) = MAX_JOBS_PER_USER - 1
    /\ jobs[NJobs - 1].uploaded_by = 1
    /\ jobs[NJobs - 1].status = "COMPLETED"
    /\ \A w \in Workers : pc[w] = "idle"

\* C28: a PENDING job whose uploaded_by is NULL is never selected by a
\* dispatch cycle: however many cycles run, no message is queued for it, no
\* worker is handed it and it stays PENDING.
C28_NullUploaderNeverSelected ==
    \A j \in Jobs :
      jobs[j].uploaded_by = NoUser =>
        /\ jobs[j].status = "PENDING"
        /\ msgs[j] = 0
        /\ \A w \in Workers : wjob[w] # j

\* C28 witness: cycles have dispatched every upload that has an uploader,
\* one of them is COMPLETED and no uploader has a PENDING row left, and the
\* upload without an uploader is still PENDING.
C28_Witness ==
    /\ \E j \in Jobs : jobs[j].uploaded_by = NoUser /\ jobs[j].status = "PENDING"
    /\ \E j \in Jobs : jobs[j].uploaded_by # NoUser /\ jobs[j].status = "COMPLETED"
    /\ PendingUsers = {}
    /\ dpc = "idle"

\* C29: process_job deletes only the temporary images made for the job: for
\* every supported input (a PDF, an image, an image that already is a small
\* PNG) the uploaded file is still on disk when process_job has returned.
C29_UploadedFileKept ==
    (jpc = "done" /\ inp.file \in {"pdf", "image", "small_png"}) => 0 \in disk

\* C30: in form 403 the check of the grand total does not depend on the
\* returns and allowances of the special-tax sales: a result and any result
\* that differs from it in that field only (another amount, a text, null,
\* the field missing, or a number beyond the range of a float) have the
\* same outcome: both calls return, with the same computed grand total and
\* the same outcome of the "total" check.
HasTag(warnings, tag) == \E n \in 1..Len(warnings) : warnings[n] = tag

\* json.loads("Infinity"), or a text such as "1e999" that float() reads as
\* infinite
Infinity == [kind |-> "inf", n |-> 0]

\* int(value) and int(float(value)) of safe_int raise OverflowError on an
\* infinite float; the except clause names ValueError and TypeError only
OverflowError(value) == value.kind = "inf"

\* the keys post_process_403_taxable_amounts hands to safe_int
Read403 ==
    {"triple_invoice", "register_tape", "two_form", "zero_customs",
     "zero_non_customs", "zero_returns", "exempt", "sales_returns",
     "special-total", "special-returns", "other", "taxable_total",
     "zero_total", "grand_total"}

Raises403(result) == \E key \in Read403 : OverflowError(Get(result, key))

OtherReturns(result) ==
    {Put(result, "special-returns", s) :
       s \in {Num(0), Num(MaxAmount + 1), Str(MaxAmount), None, Infinity}}
      \cup {Without(result, "special-returns")}

C30_SpecialReturnsCancel ==
    ("form" \in DOMAIN arg /\ arg.form = "403" /\ Len(out) = 1) =>
      \A other \in OtherReturns(arg.result) :
        LET grand == GrandComputed403(other)
        IN /\ ~Raises403(other)
           /\ grand = GrandComputed403(arg.result)
           /\ HasTag(Check(grand, safe_int(Get(other, "grand_total")), "total"), "total")
                <=> HasTag(out[1]["warnings"], "total")
====
